---- MODULE Spec2Model ----
(***************************************************************************)
(* A model of the TimeCamp data pipeline: the rate-limited API client      *)
(* (_make_request), the incremental fetch with its de-duplication pass,    *)
(* and the BigQuery stage-then-merge loader (upload_to_bigquery).          *)
(*                                                                         *)
(* Each component has its own specification over the shared variables:     *)
(*   SpecRequest  - calls of TimeCampAPI._make_request                     *)
(*   SpecFetch    - fetch_incremental_data followed by main's dedup pass   *)
(*   SpecLoad     - executions of upload_to_bigquery against one table     *)
(***************************************************************************)
EXTENDS Integers, Sequences, FiniteSets, TLC

VARIABLES
    \* ---- _make_request ----
    rq_pc,        \* "idle" | "attempt" | "sleep" | "returned" | "raised"
    attempt,      \* the loop variable of `for attempt in range(max_retries)`
    events,       \* what the current call did so far: http attempts and sleeps
    rq_error,     \* the exception the call raised ("none" while it has not)
    rq_calls,     \* number of calls started
    slept,        \* total time units spent in time.sleep
    \* ---- fetch_incremental_data and main's dedup pass ----
    f_pc,         \* "idle" | "yesterday" | "older" | "returned" | "raised" | "empty" | "deduped"
    now,          \* datetime.now(), in hours
    days_back,    \* args.days_back
    yesterday,    \* the local `yesterday` of fetch_incremental_data
    day_i,        \* the loop variable i of `for i in range(2, days_back + 1)`
    all_entries,  \* the accumulated list
    fetch_log,    \* the entries requests issued so far: offset, date, mode
    last_fetched, \* what the last entries request returned
    unique_entries, \* main's list after the dedup pass
    \* ---- upload_to_bigquery, per executing process, and BigQuery ----
    l_pc,         \* "idle" | "check" | "drop" | "create" | "stage" | "merge" | "cleanup" | "returned" | "raised"
    l_batch,      \* `data`
    l_exists,     \* the local table_exists
    l_err,        \* the exception pending in the execution ("none": none)
    l_temp,       \* temp_table_id
    l_calls,      \* the BigQuery calls the execution made so far
    l_start,      \* the destination table as it was when the execution began
    l_repeat,     \* the execution follows a returned load of the same batch
    l_cleaned,    \* what the delete of the temporary table did: "none" | "ok" | "failed"
    loads,        \* number of executions started
    dest,         \* the destination table
    temps,        \* the temporary tables of the dataset
    bq_clock,     \* int(time.time())
    \* ---- orchestrator.py ----
    o_pc,         \* "idle" | "step1" | "step2" | "exited"
    o_log,        \* the scripts run_script started, with how each child ended
    o_exit,       \* the orchestrator's exit code (NoExit: still running)
    o_runs,       \* number of orchestrator processes started
    o_gcs0,       \* the bucket as it was when the orchestrator started
    gcs,          \* number of objects in the bucket
    \* ---- get_breadcrumb_path ----
    groups_data,  \* user_details["groups"]: an insertion-ordered dict, as a
                  \* sequence of [key, name, parent_id, users]
    b_pc,         \* "idle" | "done"
    b_id,         \* the group_id the function was called with
    b_result,     \* how the call ended: [raised, path]
    \* ---- enrich_entries_with_user_details / enrich_activities_with_user_details ----
    users_data,   \* user_details["users"], a sequence of [key, email, display_name]
    e_variant,    \* "entries" (fetch_timecamp_data) | "activities" (fetch_computer_time_data)
    e_in,         \* the records passed in
    e_pc,         \* "ready" | "enriched" | "raised"
    e_out,        \* the records returned
    \* ---- TimeCampAPI.get_computer_activities ----
    a_pc,         \* "idle" | "running" | "returned" | "raised"
    a_dates,      \* `dates`
    a_users,      \* `user_ids` (<<>>: None or an empty list)
    a_i,          \* the offset i of the date batch being processed
    a_u,          \* the position in user_ids of the user being processed
    a_requests,   \* the activity requests made so far
    a_result,     \* all_activities
    \* ---- TimeCampAPI.get_user_settings / get_applications ----
    i_pc,         \* "idle" | "returned" | "raised"
    i_call,       \* the call: [fn, ids, batch_size]
    i_requests,   \* the id batches requested, in order
    i_result,     \* the dict returned, as a set of [id, value]
    \* ---- TimeCampAPI.get_applications_with_cache ----
    c_file,       \* applications_cache.json: [state, apps]
    c_last,       \* the last call: ids, file before, ids asked, result, i/o
    c_calls,      \* calls made so far
    \* ---- get_entries_with_last_modified_filter as a function ----
    m_call,       \* the call: [entries, from_date, modified_since_hours, at]
    m_out,        \* what it returned
    \* ---- get_application_name_fallback ----
    n_in,         \* app_details
    n_out         \* the name returned

reqVars == <<rq_pc, attempt, events, rq_error, rq_calls, slept>>
fetchVars == <<f_pc, now, days_back, yesterday, day_i, all_entries,
               fetch_log, last_fetched, unique_entries>>
loadVars == <<l_pc, l_batch, l_exists, l_err, l_temp, l_calls, l_start,
              l_repeat, l_cleaned, loads, dest, temps, bq_clock>>
orchVars == <<o_pc, o_log, o_exit, o_runs, o_gcs0, gcs>>
\* Everything but the request, the incremental fetch and the loader.
crumbVars == <<groups_data, b_pc, b_id, b_result>>
enrichVars == <<users_data, e_variant, e_in, e_pc, e_out>>
batchVars == <<a_pc, a_dates, a_users, a_i, a_u, a_requests, a_result>>
idsVars == <<i_pc, i_call, i_requests, i_result>>
cacheVars == <<c_file, c_last, c_calls>>
filterVars == <<m_call, m_out>>
nameVars == <<n_in, n_out>>
moreVars == <<idsVars, cacheVars, filterVars, nameVars>>
extVars == <<orchVars, crumbVars, enrichVars, batchVars, moreVars>>
priorVars == <<reqVars, fetchVars, loadVars, orchVars, crumbVars, enrichVars,
               batchVars>>
vars == <<reqVars, fetchVars, loadVars, extVars>>

\* ------------------------------------------------------------------------
\* Bounds of the model
\* ------------------------------------------------------------------------
MaxCalls == 3          \* calls of _make_request explored
MaxDaysBack == 3       \* largest --days-back explored
MaxBatch == 1          \* most records one entries request returns
MaxLoads == 3           \* executions of upload_to_bigquery explored
MaxPipelines == 4
MaxGroups == 3
RecursionLimit == 6
MaxRecords == 2
MaxDates == 41
MaxUsers == 3
MaxIds == 4
MaxBatchSize == 3
MaxClock == 1
MaxCacheCalls == 3
MaxCacheIds == 2
MaxFiltered == 2
MaxPad == 1

\* ------------------------------------------------------------------------
\* TimeCampAPI._make_request (common/api.py and fetch_timecamp_data.py hold
\* the same loop)
\* ------------------------------------------------------------------------
max_retries == 5
retry_delay == 5

NoResponse == 0        \* e.response is None (getattr(..., None))

\* What one requests.request call can do: hand back a response with a status
\* code, or raise a RequestException.  An exception raised by requests.request
\* itself carries no response (connection error, timeout) or the last redirect
\* response (TooManyRedirects).
HttpOutcomes ==
    { [kind |-> "response", status |-> s] : s \in {200, 429, 500} }
    \cup { [kind |-> "exception", status |-> s] : s \in {NoResponse, 302} }

\* response.raise_for_status(): an HTTPError for a 4xx or 5xx status.
RaisesForStatus(status) == status >= 400 /\ status < 600

\* `response.status_code == 429 and attempt < max_retries - 1`
RetryOnResponseAnyError(status, att) == RaisesForStatus(status) /\ att < max_retries - 1
RetryOnResponse(status, att) == status = 429 /\ att < max_retries - 1

\* `getattr(e.response, 'status_code', None) == 429 and attempt < max_retries - 1`
RetryOnException(status, att) == status = 429 /\ att < max_retries - 1

\* `retry_delay * (attempt + 1)`
BackoffConstant(att) == retry_delay
Backoff(att) == retry_delay * (att + 1)

\* range(max_retries): whether the for loop has another iteration for `att`.
InRange(att) == att < max_retries

HttpEvent(o) == [type |-> "http", kind |-> o.kind, status |-> o.status, secs |-> 0]
SleepEvent(n) == [type |-> "sleep", kind |-> "sleep", status |-> 0, secs |-> n]

\* The exception a finished attempt leaves the call with.
HTTPError(status) == [kind |-> "HTTPError", status |-> status]
TransportError(status) == [kind |-> "TransportError", status |-> status]
RetryBudgetExceeded == [kind |-> "RetryBudgetExceeded", status |-> NoResponse]
NoError == [kind |-> "none", status |-> NoResponse]

InitRequest ==
    /\ rq_pc = "idle"
    /\ attempt = 0
    /\ events = <<>>
    /\ rq_error = NoError
    /\ rq_calls = 0
    /\ slept = 0

\* A caller enters _make_request: the for loop starts at attempt 0.
StartRequest ==
    /\ rq_pc \in {"idle", "returned", "raised"}
    /\ rq_calls < MaxCalls
    /\ rq_calls' = rq_calls + 1
    /\ attempt' = 0
    /\ events' = <<>>
    /\ rq_error' = NoError
    /\ rq_pc' = IF InRange(0) THEN "attempt" ELSE "raised"
    /\ UNCHANGED <<slept, fetchVars, loadVars, extVars>>

\* One iteration of the loop body up to its sleep, return or raise.
Attempt(o) ==
    /\ rq_pc = "attempt"
    /\ events' = Append(events, HttpEvent(o))
    /\ IF o.kind = "response"
       THEN IF RetryOnResponse(o.status, attempt)
            THEN /\ rq_pc' = "sleep"
                 /\ rq_error' = rq_error
            ELSE IF RaisesForStatus(o.status)
                 \* raise_for_status raised; the except clause looks at it
                 THEN IF RetryOnException(o.status, attempt)
                      THEN /\ rq_pc' = "sleep"
                           /\ rq_error' = rq_error
                      ELSE /\ rq_pc' = "raised"
                           /\ rq_error' = HTTPError(o.status)
                 ELSE /\ rq_pc' = "returned"
                      /\ rq_error' = rq_error
       ELSE IF RetryOnException(o.status, attempt)
            THEN /\ rq_pc' = "sleep"
                 /\ rq_error' = rq_error
            ELSE /\ rq_pc' = "raised"
                 /\ rq_error' = TransportError(o.status)
    /\ UNCHANGED <<attempt, rq_calls, slept, fetchVars, loadVars, extVars>>

\* time.sleep(retry_delay * (attempt + 1)); continue: the loop takes its next
\* iteration, or falls out of range(max_retries) to the final raise.
SleepAndContinue ==
    /\ rq_pc = "sleep"
    /\ events' = Append(events, SleepEvent(Backoff(attempt)))
    /\ slept' = slept + Backoff(attempt)
    /\ attempt' = attempt + 1
    /\ IF InRange(attempt + 1)
       THEN /\ rq_pc' = "attempt"
            /\ rq_error' = rq_error
       ELSE /\ rq_pc' = "raised"
            /\ rq_error' = RetryBudgetExceeded
    /\ UNCHANGED <<rq_calls, fetchVars, loadVars, extVars>>

NextRequest ==
    \/ StartRequest
    \/ \E o \in HttpOutcomes : Attempt(o)
    \/ SleepAndContinue

\* ------------------------------------------------------------------------
\* fetch_incremental_data, get_entries_with_last_modified_filter and the
\* dedup pass of main (fetch_timecamp_data.py)
\* ------------------------------------------------------------------------
EntryIds == {1, 2}

\* last_modify timestamps (hours) the API may report; 0 stands for a missing or
\* empty last_modify.  The run starts at hour 263 (23:00 of day 10), so its
\* 48-hour cutoff is 215 (a record modified at 215 is kept), and 216 once the
\* clock has passed midnight (the same record is then too old).
LastModifyVals == {0, 215}

SeqsUpTo(S, n) == UNION { [1..k -> S] : k \in 0..n }

\* strftime('%Y-%m-%d') of a datetime: its calendar day.
DateOf(t) == t \div 24

\* get_yesterday(): (datetime.now() - timedelta(days=1)).strftime('%Y-%m-%d')
get_yesterday(t) == DateOf(t - 24)

\* The entries the API may answer a request for date d with, or an exception
\* out of api.get_time_entries (ok = FALSE).
ApiAnswers(d) ==
    { [ok |-> TRUE, entries |-> s] :
        s \in SeqsUpTo({ [id |-> i, last_modify |-> m, date |-> d] :
                            i \in EntryIds, m \in LastModifyVals }, MaxBatch) }
    \cup { [ok |-> FALSE, entries |-> <<>>] }

\* `last_modify and last_modify >= cutoff_timestamp`
RecentlyModifiedStrict(e, cutoff) == e.last_modify # 0 /\ e.last_modify > cutoff
RecentlyModified(e, cutoff) == e.last_modify # 0 /\ e.last_modify >= cutoff

\* get_entries_with_last_modified_filter on the entries the request returned,
\* at time t; modified_since_hours = 0 stands for None.
FilterEntries(entries, from_date, to_date, modified_since_hours, t) ==
    IF from_date = get_yesterday(t) \/ to_date = get_yesterday(t)
    THEN entries
    ELSE IF modified_since_hours # 0 /\ entries # <<>>
         THEN SelectSeq(entries,
                        LAMBDA e : RecentlyModified(e, t - modified_since_hours))
         ELSE entries

\* Whether that call post-filters what it fetched.
FetchMode(from_date, to_date, modified_since_hours, t) ==
    IF from_date = get_yesterday(t) \/ to_date = get_yesterday(t)
    THEN "full"
    ELSE IF modified_since_hours # 0 THEN "modified" ELSE "full"

LogEntry(offset, date, hours, t, answer) ==
    [offset |-> offset, date |-> date, at |-> t, ok |-> answer.ok,
     mode |-> FetchMode(date, date, hours, t),
     kept |-> IF answer.ok
              THEN FilterEntries(answer.entries, date, date, hours, t)
              ELSE <<>>]

\* The dedup loop of main: seen_ids and unique_entries after entries[k..].
RECURSIVE DedupFrom(_, _, _, _)
DedupFrom(entries, k, seen_ids, unique) ==
    IF k > Len(entries)
    THEN unique
    ELSE IF entries[k].id \notin seen_ids
         THEN DedupFrom(entries, k + 1, seen_ids \cup {entries[k].id},
                        Append(unique, entries[k]))
         ELSE DedupFrom(entries, k + 1, seen_ids, unique)

\* A dedup that lets a later record of an id replace the earlier one.
RECURSIVE KeepLastFrom(_, _, _)
KeepLastFrom(entries, k, unique) ==
    IF k > Len(entries)
    THEN unique
    ELSE IF \E j \in 1..Len(unique) : unique[j].id = entries[k].id
         THEN KeepLastFrom(entries, k + 1,
                           [j \in 1..Len(unique) |->
                               IF unique[j].id = entries[k].id
                               THEN entries[k] ELSE unique[j]])
         ELSE KeepLastFrom(entries, k + 1, Append(unique, entries[k]))

RemoveDuplicatesKeepLast(entries) == KeepLastFrom(entries, 1, <<>>)
RemoveDuplicates(entries) == DedupFrom(entries, 1, {}, <<>>)

InitFetch ==
    /\ f_pc = "idle"
    /\ now = 263
    /\ days_back = 0
    /\ yesterday = 0
    /\ day_i = 0
    /\ all_entries = <<>>
    /\ fetch_log = <<>>
    /\ last_fetched = <<>>
    /\ unique_entries = <<>>

\* Time passes while the run is fetching (requests, retries, time.sleep(1)):
\* a run started at 23:00 may see the clock pass midnight, once.
Tick ==
    /\ f_pc \in {"yesterday", "older"}
    /\ get_yesterday(now) = yesterday
    /\ now' = now + 1
    /\ UNCHANGED <<f_pc, days_back, yesterday, day_i, all_entries, fetch_log,
                   last_fetched, unique_entries, reqVars, loadVars, extVars>>

\* main calls fetch_incremental_data(api, args.days_back, logger).
StartFetch(db) ==
    /\ f_pc = "idle"
    /\ days_back' = db
    /\ all_entries' = <<>>
    /\ yesterday' = get_yesterday(now)
    /\ f_pc' = "yesterday"
    /\ UNCHANGED <<now, day_i, fetch_log, last_fetched, unique_entries,
                   reqVars, loadVars, extVars>>

\* range(2, days_back + 1): the loop goes on with i, or the function returns.
LoopOrReturn(i) == IF i < days_back + 1 THEN "older" ELSE "returned"

\* Yesterday's request, outside any try: an exception leaves the function.
FetchYesterday(answer) ==
    /\ f_pc = "yesterday"
    /\ LET entry == LogEntry(1, yesterday, 0, now, answer) IN
        /\ fetch_log' = Append(fetch_log, entry)
        /\ last_fetched' = answer.entries
        /\ IF answer.ok
           THEN /\ all_entries' = all_entries \o entry.kept
                /\ day_i' = 2
                /\ f_pc' = LoopOrReturn(2)
           ELSE /\ f_pc' = "raised"
                /\ UNCHANGED <<all_entries, day_i>>
    /\ UNCHANGED <<now, days_back, yesterday, unique_entries, reqVars, loadVars, extVars>>

\* One iteration of the loop over the older days; `caught` says whether the
\* request sits inside the try whose except logs and continues.
OlderDayStep(answer, caught) ==
    /\ f_pc = "older"
    /\ LET date == DateOf(now - 24 * day_i)
           entry == LogEntry(day_i, date, 48, now, answer) IN
        /\ fetch_log' = Append(fetch_log, entry)
        /\ last_fetched' = answer.entries
        /\ IF answer.ok \/ caught
           THEN /\ all_entries' = all_entries \o entry.kept
                /\ day_i' = day_i + 1
                /\ f_pc' = LoopOrReturn(day_i + 1)
           ELSE /\ f_pc' = "raised"
                /\ UNCHANGED <<all_entries, day_i>>
    /\ UNCHANGED <<now, days_back, yesterday, unique_entries, reqVars, loadVars, extVars>>

FetchOlderDayUncaught(answer) == OlderDayStep(answer, FALSE)
FetchOlderDay(answer) == OlderDayStep(answer, TRUE)

\* main after fetch_incremental_data returned: nothing to do for an empty list;
\* otherwise the entries are enriched in place (fields are added, the list, its
\* order and the ids stay) and the dedup pass runs over them.
DedupPass ==
    /\ f_pc = "returned"
    /\ IF all_entries = <<>>
       THEN /\ f_pc' = "empty"
            /\ UNCHANGED unique_entries
       ELSE /\ f_pc' = "deduped"
            /\ unique_entries' = RemoveDuplicates(all_entries)
    /\ UNCHANGED <<now, days_back, yesterday, day_i, all_entries,
                   fetch_log, last_fetched, reqVars, loadVars, extVars>>

NextFetch ==
    \/ \E db \in 1..MaxDaysBack : StartFetch(db)
    \/ Tick
    \/ \E a \in ApiAnswers(yesterday) : FetchYesterday(a)
    \/ \E a \in ApiAnswers(DateOf(now - 24 * day_i)) : FetchOlderDay(a)
    \/ DedupPass

\* ------------------------------------------------------------------------
\* upload_to_bigquery (destination_googlebigquery.py) and the BigQuery tables
\* it works on
\* ------------------------------------------------------------------------
Loaders == {1, 2}

\* The value BigQuery gives a column no statement sets.
NULL == "NULL"

\* One payload record is an id and one token standing for a version of the
\* values of its other fields; "" is a record whose other fields are blank.
PayloadVals == {"", "a"}
PayloadRecords == { [id |-> i, v |-> x] : i \in EntryIds, x \in PayloadVals }

\* The batches handed to upload_to_bigquery: the files stage 1 writes, which
\* are never empty and hold one record per id (main's dedup pass).
Batches ==
    { s \in SeqsUpTo(PayloadRecords, Cardinality(EntryIds)) :
        /\ s # <<>>
        /\ \A i, j \in 1..Len(s) : i # j => s[i].id # s[j].id }

\* `schema`: the columns of the destination table and their types.
SchemaColumns == {
    "id", "duration", "user_id", "user_name", "task_id", "task_note",
    "last_modify", "date", "start_time", "end_time", "locked", "name",
    "addons_external_id", "billable", "invoiceId", "color", "description",
    "hasEntryLocationHistory", "project_id", "project_name", "total_cost",
    "total_income", "rate_income", "tags", "breadcrumps", "email",
    "group_name", "group_breadcrumb_level_1", "group_breadcrumb_level_2",
    "group_breadcrumb_level_3", "group_breadcrumb_level_4" }

ExpectedSchema ==
    [c \in SchemaColumns |->
        IF c \in {"id", "billable", "project_id"} THEN "INTEGER"
        ELSE IF c \in {"total_cost", "total_income", "rate_income"} THEN "FLOAT"
        ELSE IF c = "date" THEN "DATE"
        ELSE IF c = "hasEntryLocationHistory" THEN "BOOLEAN"
        ELSE IF c = "tags" THEN "JSON"
        ELSE "STRING"]

\* The columns the MERGE assigns in WHEN MATCHED THEN UPDATE SET.
UpdateSetColumns == {
    "duration", "user_id", "user_name", "task_id", "task_note",
    "last_modify", "date", "start_time", "end_time", "locked", "name",
    "addons_external_id", "billable", "invoiceId", "color", "description",
    "hasEntryLocationHistory", "project_id", "project_name", "total_cost",
    "total_income", "rate_income", "tags", "breadcrumps", "email",
    "group_name", "group_breadcrumb_level_1", "group_breadcrumb_level_2",
    "group_breadcrumb_level_3", "group_breadcrumb_level_4" }

\* The columns the MERGE lists in WHEN NOT MATCHED THEN INSERT (...).
InsertColumns == {
    "id", "duration", "user_id", "user_name", "task_id", "task_note",
    "last_modify", "date", "start_time", "end_time", "locked", "name",
    "addons_external_id", "billable", "invoiceId", "color", "description",
    "hasEntryLocationHistory", "project_id", "project_name", "total_cost",
    "total_income", "rate_income", "tags", "breadcrumps", "email",
    "group_name", "group_breadcrumb_level_1", "group_breadcrumb_level_2",
    "group_breadcrumb_level_3", "group_breadcrumb_level_4" }

\* Destination tables an earlier deployment may have left behind: one lacking
\* an expected column, one with an expected column of another type, one with
\* a column the expected schema does not have.
MissingColumnSchema ==
    [c \in SchemaColumns \ {"group_breadcrumb_level_4"} |-> ExpectedSchema[c]]
RetypedColumnSchema == [ExpectedSchema EXCEPT !["billable"] = "STRING"]
ExtraColumnSchema ==
    [c \in SchemaColumns \cup {"legacy_note"} |->
        IF c \in SchemaColumns THEN ExpectedSchema[c] ELSE "STRING"]

NoSchema == [c \in {} |-> "STRING"]
AbsentTable == [exists |-> FALSE, schema |-> NoSchema, rows |-> <<>>]
Table(schema, rows) == [exists |-> TRUE, schema |-> schema, rows |-> rows]

\* A row loaded before the run: id 1, every other column holding "p".
PriorRow(schema) == [c \in DOMAIN schema |-> IF c = "id" THEN 1 ELSE "p"]

InitialDestinations ==
    {AbsentTable}
    \cup { Table(s, <<PriorRow(s)>>) :
            s \in {ExpectedSchema, MissingColumnSchema, RetypedColumnSchema,
                   ExtraColumnSchema} }

\* The schema comparison of upload_to_bigquery: some expected field is not in
\* the existing table or has another type there.
SchemaNeedsUpdateNamesOnly(existing) ==
    \E name \in DOMAIN ExpectedSchema : name \notin DOMAIN existing
SchemaNeedsUpdate(existing) ==
    \E name \in DOMAIN ExpectedSchema :
        name \notin DOMAIN existing \/ existing[name] # ExpectedSchema[name]

\* The load job with the explicit schema: one typed row per record.
StagedRow(r) == [c \in SchemaColumns |-> IF c = "id" THEN r.id ELSE r.v]
StagedRows(data) == [k \in 1..Len(data) |-> StagedRow(data[k])]

\* f"temp_{table_id}_{int(time.time())}"
TempName(t) == t

\* WRITE_TRUNCATE into the named table; delete of the named table.
HasTemp(tables, name) == \E t \in tables : t.name = name
TempRows(tables, name) == (CHOOSE t \in tables : t.name = name).rows
WriteTruncate(tables, name, rows) ==
    { t \in tables : t.name # name } \cup { [name |-> name, rows |-> rows] }
DeleteTemp(tables, name) == { t \in tables : t.name # name }

\* The MERGE statement: ON T.id = S.id.
MatchesOf(t, S) == { k \in 1..Len(S) : S[k]["id"] = t["id"] }

\* The statement resolves every column it names in T with the type it casts to.
MergeCompatible(schema) ==
    \A c \in UpdateSetColumns \cup InsertColumns :
        c \in DOMAIN schema /\ schema[c] = ExpectedSchema[c]

\* BigQuery rejects a MERGE in which a target row matches several source rows.
MergeAmbiguous(rows, S) ==
    \E j \in 1..Len(rows) : Cardinality(MatchesOf(rows[j], S)) > 1

\* WHEN MATCHED THEN UPDATE SET T.c = CAST(S.c AS <type of c>), ...
UpdatedRowKeepNonBlank(t, s) ==
    [c \in DOMAIN t |-> IF c \in UpdateSetColumns /\ s[c] # "" THEN s[c] ELSE t[c]]
UpdatedRow(t, s) ==
    [c \in DOMAIN t |-> IF c \in UpdateSetColumns THEN s[c] ELSE t[c]]

\* WHEN NOT MATCHED THEN INSERT (...) VALUES (...)
InsertedRow(schema, s) ==
    [c \in DOMAIN schema |-> IF c \in InsertColumns THEN s[c] ELSE NULL]

InsertedRows(schema, S) == [k \in 1..Len(S) |-> InsertedRow(schema, S[k])]

MergedRowsInsertOnly(schema, rows, S) == rows \o InsertedRows(schema, S)
MergedRowsReplacing(schema, rows, S) == InsertedRows(schema, S)
MergedRows(schema, rows, S) ==
    [j \in 1..Len(rows) |->
        IF MatchesOf(rows[j], S) = {}
        THEN rows[j]
        ELSE UpdatedRow(rows[j], S[CHOOSE k \in MatchesOf(rows[j], S) : TRUE])]
    \o InsertedRows(schema,
                    SelectSeq(S, LAMBDA s :
                        \A j \in 1..Len(rows) : rows[j]["id"] # s["id"]))

LoadIdle ==
    /\ l_pc = [p \in Loaders |-> "idle"]
    /\ l_batch = [p \in Loaders |-> <<>>]
    /\ l_exists = [p \in Loaders |-> FALSE]
    /\ l_err = [p \in Loaders |-> "none"]
    /\ l_temp = [p \in Loaders |-> 0]
    /\ l_calls = [p \in Loaders |-> <<>>]
    /\ l_start = [p \in Loaders |-> AbsentTable]
    /\ l_repeat = [p \in Loaders |-> FALSE]
    /\ l_cleaned = [p \in Loaders |-> "none"]
    /\ loads = 0
    /\ temps = {}
    /\ bq_clock = 0

InitLoad ==
    /\ LoadIdle
    /\ dest \in InitialDestinations

Called(p, name) == l_calls' = [l_calls EXCEPT ![p] = Append(@, name)]

\* main calls upload_to_bigquery(data, ...).
StartLoad(p, data) ==
    /\ l_pc[p] \in {"idle", "returned", "raised"}
    /\ loads < MaxLoads
    /\ loads' = loads + 1
    /\ l_pc' = [l_pc EXCEPT ![p] = "check"]
    /\ l_repeat' = [l_repeat EXCEPT ![p] = (l_pc[p] = "returned" /\ l_batch[p] = data)]
    /\ l_batch' = [l_batch EXCEPT ![p] = data]
    /\ l_start' = [l_start EXCEPT ![p] = dest]
    /\ l_err' = [l_err EXCEPT ![p] = "none"]
    /\ l_calls' = [l_calls EXCEPT ![p] = <<>>]
    /\ l_exists' = [l_exists EXCEPT ![p] = FALSE]
    /\ l_cleaned' = [l_cleaned EXCEPT ![p] = "none"]
    /\ UNCHANGED <<l_temp, dest, temps, bq_clock, reqVars, fetchVars, extVars>>

\* get_table (any exception counts as "does not exist") and the schema check.
CheckTable(p, ok) ==
    /\ l_pc[p] = "check"
    /\ Called(p, "get_table")
    /\ LET table_exists == ok /\ dest.exists
           schema_needs_update == table_exists /\ SchemaNeedsUpdate(dest.schema)
       IN /\ l_exists' = [l_exists EXCEPT ![p] = table_exists]
          /\ l_pc' = [l_pc EXCEPT ![p] =
                        IF schema_needs_update THEN "drop"
                        ELSE IF ~table_exists THEN "create" ELSE "stage"]
    /\ UNCHANGED <<l_batch, l_err, l_temp, l_start, l_repeat, l_cleaned, loads, dest,
                   temps, bq_clock, reqVars, fetchVars, extVars>>

\* bq_client.delete_table(table_ref); a failure is logged and raised, the
\* table being as it was (`lossy`: being gone all the same).
DropStep(p, ok, lossy) ==
    /\ l_pc[p] = "drop"
    /\ Called(p, "delete_table")
    /\ IF ok /\ dest.exists
       THEN /\ dest' = AbsentTable
            /\ l_exists' = [l_exists EXCEPT ![p] = FALSE]
            /\ l_pc' = [l_pc EXCEPT ![p] = "create"]
            /\ UNCHANGED l_err
       ELSE /\ l_pc' = [l_pc EXCEPT ![p] = "raised"]
            /\ l_err' = [l_err EXCEPT ![p] = "drop"]
            /\ dest' = IF lossy THEN AbsentTable ELSE dest
            /\ UNCHANGED l_exists
    /\ UNCHANGED <<l_batch, l_temp, l_start, l_repeat, l_cleaned, loads, temps, bq_clock,
                   reqVars, fetchVars, extVars>>

DropTableLossy(p, ok) == DropStep(p, ok, TRUE)
DropTable(p, ok) == DropStep(p, ok, FALSE)

\* bq_client.create_table(table); a failure is logged and raised.
CreateTable(p, ok) ==
    /\ l_pc[p] = "create"
    /\ Called(p, "create_table")
    /\ IF ok /\ ~dest.exists
       THEN /\ dest' = Table(ExpectedSchema, <<>>)
            /\ l_pc' = [l_pc EXCEPT ![p] = "stage"]
            /\ UNCHANGED l_err
       ELSE /\ l_pc' = [l_pc EXCEPT ![p] = "raised"]
            /\ l_err' = [l_err EXCEPT ![p] = "create"]
            /\ UNCHANGED dest
    /\ UNCHANGED <<l_batch, l_exists, l_temp, l_start, l_repeat, l_cleaned, loads, temps,
                   bq_clock, reqVars, fetchVars, extVars>>

\* The temporary table is named and the load job run, inside the try.
StageLoad(p, ok) ==
    /\ l_pc[p] = "stage"
    /\ Called(p, "load")
    /\ l_temp' = [l_temp EXCEPT ![p] = TempName(bq_clock)]
    /\ IF ok
       THEN /\ temps' = WriteTruncate(temps, TempName(bq_clock), StagedRows(l_batch[p]))
            /\ l_pc' = [l_pc EXCEPT ![p] = "merge"]
            /\ UNCHANGED l_err
       ELSE /\ l_pc' = [l_pc EXCEPT ![p] = "cleanup"]
            /\ l_err' = [l_err EXCEPT ![p] = "load"]
            /\ UNCHANGED temps
    /\ UNCHANGED <<l_batch, l_exists, l_start, l_repeat, l_cleaned, loads, dest, bq_clock,
                   reqVars, fetchVars, extVars>>

\* The MERGE query job; `in_try` says whether a failure reaches the finally.
MergeStep(p, ok, in_try) ==
    /\ l_pc[p] = "merge"
    /\ Called(p, "merge")
    /\ IF /\ ok
          /\ dest.exists
          /\ MergeCompatible(dest.schema)
          /\ HasTemp(temps, l_temp[p])
          /\ ~MergeAmbiguous(dest.rows, TempRows(temps, l_temp[p]))
       THEN /\ dest' = [dest EXCEPT !.rows =
                          MergedRows(dest.schema, dest.rows, TempRows(temps, l_temp[p]))]
            /\ l_pc' = [l_pc EXCEPT ![p] = "cleanup"]
            /\ UNCHANGED l_err
       ELSE /\ l_pc' = [l_pc EXCEPT ![p] = IF in_try THEN "cleanup" ELSE "raised"]
            /\ l_err' = [l_err EXCEPT ![p] = "merge"]
            /\ UNCHANGED dest
    /\ UNCHANGED <<l_batch, l_exists, l_temp, l_start, l_repeat, l_cleaned, loads, temps,
                   bq_clock, reqVars, fetchVars, extVars>>

MergeOutsideTry(p, ok) == MergeStep(p, ok, FALSE)
Merge(p, ok) == MergeStep(p, ok, TRUE)

\* finally: delete the temporary table, then the temporary file; a failure of
\* either is caught and logged (`swallowed`), then the function returns, or
\* the pending exception goes on to the caller.
CleanupStep(p, ok, swallowed) ==
    /\ l_pc[p] = "cleanup"
    /\ Called(p, "delete_temp")
    /\ temps' = IF ok THEN DeleteTemp(temps, l_temp[p]) ELSE temps
    /\ l_cleaned' = [l_cleaned EXCEPT ![p] = IF ok THEN "ok" ELSE "failed"]
    /\ l_err' = [l_err EXCEPT ![p] = IF ok \/ swallowed THEN @ ELSE "cleanup"]
    /\ l_pc' = [l_pc EXCEPT ![p] =
                  IF l_err'[p] = "none" THEN "returned" ELSE "raised"]
    /\ UNCHANGED <<l_batch, l_exists, l_temp, l_start, l_repeat, loads,
                   dest, bq_clock, reqVars, fetchVars, extVars>>

CleanupRaises(p, ok) == CleanupStep(p, ok, FALSE)
Cleanup(p, ok) == CleanupStep(p, ok, TRUE)

LoaderStep(p) ==
    \/ \E data \in Batches : StartLoad(p, data)
    \/ \E ok \in BOOLEAN : CheckTable(p, ok)
    \/ \E ok \in BOOLEAN : DropTable(p, ok)
    \/ \E ok \in BOOLEAN : CreateTable(p, ok)
    \/ \E ok \in BOOLEAN : StageLoad(p, ok)
    \/ \E ok \in BOOLEAN : Merge(p, ok)
    \/ \E ok \in BOOLEAN : Cleanup(p, ok)

\* Loads of one process, one after the other.
NextLoad == LoaderStep(1)

\* int(time.time()) moves on by a second.
ClockTick ==
    /\ bq_clock < MaxClock
    /\ bq_clock' = bq_clock + 1
    /\ UNCHANGED <<l_pc, l_batch, l_exists, l_err, l_temp, l_calls, l_start, l_repeat,
                   l_cleaned, loads, dest, temps, reqVars, fetchVars, extVars>>

\* Two processes (two pipeline runs), each loading one file of one record
\* into the same table.
PairBatches == { <<[id |-> i, v |-> "a"]>> : i \in EntryIds }

PairStep(p) ==
    \/ \E data \in PairBatches : l_pc[p] = "idle" /\ StartLoad(p, data)
    \/ \E ok \in BOOLEAN : CheckTable(p, ok)
    \/ \E ok \in BOOLEAN : DropTable(p, ok)
    \/ \E ok \in BOOLEAN : CreateTable(p, ok)
    \/ \E ok \in BOOLEAN : StageLoad(p, ok)
    \/ \E ok \in BOOLEAN : Merge(p, ok)
    \/ \E ok \in BOOLEAN : Cleanup(p, ok)

NextLoadPair ==
    \/ PairStep(1)
    \/ PairStep(2)
    \/ ClockTick

\* ------------------------------------------------------------------------
\* orchestrator.py: run_script, main and the __main__ block
\* ------------------------------------------------------------------------
NoExit == -1
ExitCodes == {0, 1, 2}

\* How subprocess.run(..., check=True) can end: the child exited with `code`
\* having written `wrote` objects, or the call itself raised (`raised`, the
\* child never ran: code and wrote are then those of no child).
\* `picked`: the child got as far as choosing the file it loads.
ChildOutcomes ==
    { [code |-> c, wrote |-> w, raised |-> FALSE, picked |-> k] :
        c \in ExitCodes, w \in {0, 1}, k \in BOOLEAN }
    \cup { [code |-> NoExit, wrote |-> 0, raised |-> TRUE, picked |-> FALSE] }

\* The objects of the bucket under the prefix are numbered in the order of
\* their creation. get_latest_file: max(files, key=created); no file at all
\* (written 0) is FileNotFoundError.
OldestFile(n) == IF n = 0 THEN 0 ELSE 1
LatestFile(n) == n

\* run_script: True unless CalledProcessError (a non-zero exit) was caught.
RunScriptSuccess(o) == ~o.raised /\ o.code = 0

InitOrch ==
    /\ o_pc = "idle"
    /\ o_log = <<>>
    /\ o_exit = NoExit
    /\ o_runs = 0
    /\ o_gcs0 = 0
    /\ gcs = 0

StartOrchestrator ==
    /\ o_pc \in {"idle", "exited"}
    /\ o_runs < MaxPipelines
    /\ o_runs' = o_runs + 1
    /\ o_pc' = "step1"
    /\ o_log' = <<>>
    /\ o_exit' = NoExit
    /\ o_gcs0' = gcs
    /\ UNCHANGED <<gcs, reqVars, fetchVars, loadVars, crumbVars, enrichVars, batchVars, moreVars>>

\* One step of main: run_script(script) and what main and the __main__ block
\* do with its result. `abort_on_failure` is main's `if not success: return
\* False`; `next_pc` is where main goes on a success.
OrchStep(pc, script, o, abort_on_failure, next_pc) ==
    /\ o_pc = pc
    /\ o_log' = Append(o_log, [script |-> script, code |-> o.code,
                               wrote |-> o.wrote, raised |-> o.raised,
                               loaded |-> IF o.picked THEN LatestFile(gcs) ELSE 0])
    /\ gcs' = gcs + o.wrote
    /\ IF o.raised \/ (abort_on_failure /\ ~RunScriptSuccess(o))
       THEN o_pc' = "exited" /\ o_exit' = 1
       ELSE IF next_pc = "exited"
            THEN o_pc' = "exited"
                 /\ o_exit' = (IF RunScriptSuccess(o) THEN 0 ELSE 1)
            ELSE o_pc' = next_pc /\ UNCHANGED o_exit
    /\ UNCHANGED <<o_runs, o_gcs0, reqVars, fetchVars, loadVars, crumbVars, enrichVars, batchVars, moreVars>>

\* The fetch script writes one object or, with no entries found or on a
\* failure, none; it loads nothing.
Step1IgnoresExit(o) ==
    /\ ~o.picked
    /\ OrchStep("step1", "fetch_timecamp_data.py", o, FALSE, "step2")
Step1(o) ==
    /\ ~o.picked
    /\ OrchStep("step1", "fetch_timecamp_data.py", o, TRUE, "step2")

\* The loader writes to BigQuery, not to the bucket. With no --file-name it
\* loads what get_latest_file names; it cannot exit 0 without having named a
\* file, nor name one in an empty bucket.
Step2(o) ==
    /\ o.wrote = 0
    /\ o.picked => LatestFile(gcs) # 0
    /\ (~o.raised /\ o.code = 0) => o.picked
    /\ OrchStep("step2", "destination_googlebigquery.py", o, TRUE, "exited")

NextOrch ==
    \/ StartOrchestrator
    \/ \E o \in ChildOutcomes : Step1(o)
    \/ \E o \in ChildOutcomes : Step2(o)

\* ------------------------------------------------------------------------
\* get_breadcrumb_path (enrich_entries_with_user_details and
\* enrich_activities_with_user_details hold the same function)
\* ------------------------------------------------------------------------
\* dict.get of a missing key.
None == "None"

\* s.startswith("g"), s[1:], f"g{s}"
StartsWithG(s) == Len(s) >= 1 /\ SubSeq(s, 1, 1) = "g"
DropFirst(s) == IF Len(s) >= 1 THEN Tail(s) ELSE s
WithG(s) == "g" \o s

\* `key in groups_data` and `groups_data[key]`
KeysOf(groups) == { groups[k].key : k \in 1..Len(groups) }
GroupAt(groups, key) ==
    groups[CHOOSE k \in 1..Len(groups) : groups[k].key = key]

\* `not parent_id or parent_id == "0"`
IsRootParent(parent_id) == parent_id = None \/ parent_id = "" \/ parent_id = "0"

Returns(path) == [raised |-> FALSE, path |-> path]
RecursionError == [raised |-> TRUE, path |-> <<>>]

\* The key the lookup settles on, None when it gives up.
ResolveKey(groups, group_id) ==
    IF group_id \in KeysOf(groups) THEN group_id
    ELSE IF StartsWithG(group_id)
         THEN LET group_id_no_prefix == DropFirst(group_id)
              IN IF WithG(group_id_no_prefix) \in KeysOf(groups)
                 THEN WithG(group_id_no_prefix)
                 ELSE None
         ELSE IF WithG(group_id) \in KeysOf(groups)
              THEN WithG(group_id)
              ELSE None

\* The recursion carries `level` and never tests it: the interpreter ends a
\* recursion deeper than its limit with RecursionError.
RECURSIVE get_breadcrumb_path(_, _, _)
get_breadcrumb_path(groups, group_id, level) ==
    IF level > RecursionLimit THEN RecursionError
    ELSE LET key == ResolveKey(groups, group_id)
         IN IF key = None THEN Returns(<<>>)
            ELSE LET group == GroupAt(groups, key)
                     parent_id == group.parent_id
                 IN IF IsRootParent(parent_id) THEN Returns(<<group.name>>)
                    ELSE LET parent_path ==
                                 get_breadcrumb_path(
                                     groups,
                                     IF ~StartsWithG(parent_id)
                                     THEN WithG(parent_id) ELSE parent_id,
                                     level + 1)
                         IN IF parent_path.raised THEN RecursionError
                            ELSE Returns(Append(parent_path.path, group.name))

\* Group ids as the source system writes them, with and without the prefix.
GroupKeyOrder == <<"g1", "1", "g2", "2", "g3", "3">>
GroupKeys == { GroupKeyOrder[k] : k \in 1..Len(GroupKeyOrder) }
ParentIds == {None, "", "0"} \cup GroupKeys
LookupIds == GroupKeys \cup {"g9", "9"}

\* Every map of at most n groups, cyclic ones included; a group is named
\* after its key.
GroupMaps(n) ==
    UNION { { [k \in 1..Len(keys) |->
                [key |-> keys[k], name |-> keys[k], parent_id |-> par[k],
                 users |-> <<>>]] :
              par \in [1..Len(keys) -> ParentIds] } :
            keys \in { SelectSeq(GroupKeyOrder, LAMBDA x : x \in S) :
                       S \in { T \in SUBSET GroupKeys : Cardinality(T) <= n } } }

IdleCrumb ==
    /\ b_pc = "idle"
    /\ b_id = ""
    /\ b_result = Returns(<<>>)

InitCrumb ==
    /\ groups_data \in GroupMaps(MaxGroups)
    /\ IdleCrumb

\* One call get_breadcrumb_path(group_id).
Resolve(group_id) ==
    /\ b_pc' = "done"
    /\ b_id' = group_id
    /\ b_result' = get_breadcrumb_path(groups_data, group_id, 0)
    /\ UNCHANGED <<groups_data, reqVars, fetchVars, loadVars, orchVars, enrichVars, batchVars, moreVars>>

NextCrumb == \E group_id \in LookupIds : Resolve(group_id)

\* ------------------------------------------------------------------------
\* enrich_entries_with_user_details (fetch_timecamp_data.py) and
\* enrich_activities_with_user_details (fetch_computer_time_data.py)
\* ------------------------------------------------------------------------
\* entry[field] = value, on a record held as a function of its field names.
SetField(entry, field, value) ==
    [f \in DOMAIN entry \cup {field} |-> IF f = field THEN value ELSE entry[f]]

\* entry.get(field)
GetField(entry, field) == IF field \in DOMAIN entry THEN entry[field] ELSE None

\* numeric_id: the user id without a leading "u".
NumericId(user_id) ==
    IF Len(user_id) >= 1 /\ SubSeq(user_id, 1, 1) = "u"
    THEN DropFirst(user_id) ELSE user_id

\* The keys of user_info, and the users entry whose object a key refers to:
\* the last one that was stored under it.
UserInfoKeys(users) ==
    UNION { {users[i].key, NumericId(users[i].key)} : i \in 1..Len(users) }
UserAt(users, user_id) ==
    CHOOSE i \in 1..Len(users) :
        /\ user_id \in {users[i].key, NumericId(users[i].key)}
        /\ \A j \in (i + 1)..Len(users) :
            user_id \notin {users[j].key, NumericId(users[j].key)}

\* user_info[...]["groups"] of users entry i after the pass over groups_data:
\* the groups listing a key of that object, in the order of groups_data.
UserGroups(users, groups, i) ==
    SelectSeq(groups,
              LAMBDA g : \E m \in 1..Len(g.users) :
                            /\ g.users[m] \in UserInfoKeys(users)
                            /\ UserAt(users, g.users[m]) = i)

\* next(iter(user_groups))
FirstGroupLast(user_groups) == user_groups[Len(user_groups)]
FirstGroup(user_groups) == user_groups[1]

\* The value written to group_breadcrumb_level_<n>, n = i + 1 in range(4).
BreadcrumbLevelLeafmost(breadcrumb_path, n) ==
    IF Len(breadcrumb_path) > 4
    THEN breadcrumb_path[Len(breadcrumb_path) - 4 + n]
    ELSE IF n <= Len(breadcrumb_path) THEN breadcrumb_path[n] ELSE ""
BreadcrumbLevel(breadcrumb_path, n) ==
    IF n - 1 < Len(breadcrumb_path) THEN breadcrumb_path[n] ELSE ""

LevelFields == <<"group_breadcrumb_level_1", "group_breadcrumb_level_2",
                 "group_breadcrumb_level_3", "group_breadcrumb_level_4">>

RECURSIVE SetLevels(_, _, _)
SetLevels(entry, breadcrumb_path, n) ==
    IF n = 0 THEN entry
    ELSE SetField(SetLevels(entry, breadcrumb_path, n - 1),
                  LevelFields[n], BreadcrumbLevel(breadcrumb_path, n))

\* The branch of a user_id that is missing, empty or not in user_info.
DefaultsOmitted(entry, variant) == entry
Defaults(entry, variant) ==
    LET named == IF variant = "activities"
                 THEN SetField(SetField(entry, "email", ""), "display_name", "")
                 ELSE SetField(entry, "email", "")
    IN SetLevels(SetField(named, "group_name", ""), <<>>, 4)

\* The branch of a user_id found in user_info.
KnownUser(entry, variant, users, groups, i) ==
    LET named == IF variant = "activities"
                 THEN SetField(SetField(entry, "email", users[i].email),
                               "display_name", users[i].display_name)
                 ELSE SetField(entry, "email", users[i].email)
        user_groups == UserGroups(users, groups, i)
    IN IF user_groups # <<>>
       THEN LET group_data == FirstGroup(user_groups)
            IN SetLevels(SetField(named, "group_name", group_data.name),
                         get_breadcrumb_path(groups, group_data.key, 0).path, 4)
       ELSE named

EnrichRecord(entry, variant, users, groups) ==
    LET user_id == GetField(entry, "user_id")
    IN IF user_id # None /\ user_id # "" /\ user_id \in UserInfoKeys(users)
       THEN KnownUser(entry, variant, users, groups, UserAt(users, user_id))
       ELSE Defaults(entry, variant)

\* people_picker as the runs of the model see it: user "u1" and user "2";
\* five groups, each the child of the one before it except where a new tree
\* starts (`cut`: one chain of five, or a chain of two and a chain of three),
\* listed root first or leaf first; user 1 in at most two groups `in1` (under
\* the key "u1"), user 2 in the groups `in2`.
UsersData ==
    << [key |-> "u1", email |-> "ann@example.com", display_name |-> "Ann"],
       [key |-> "2", email |-> "bob@example.com", display_name |-> "Bob"] >>
EnrichGroupKeys == <<"g1", "g2", "g3", "g4", "g5">>
EnrichGroup(k, cut, in1, in2) ==
    [key |-> EnrichGroupKeys[k],
     name |-> EnrichGroupKeys[k],
     parent_id |-> IF k = 1 \/ k = cut THEN "0" ELSE DropFirst(EnrichGroupKeys[k - 1]),
     users |-> (IF k \in in1 THEN <<"u1">> ELSE <<>>)
               \o (IF k \in in2 THEN <<"2">> ELSE <<>>)]
Reversed(seq) == [k \in 1..Len(seq) |-> seq[Len(seq) + 1 - k]]
EnrichGroupMaps ==
    UNION { { [k \in 1..5 |-> EnrichGroup(k, cut, in1, in2)],
              Reversed([k \in 1..5 |-> EnrichGroup(k, cut, in1, in2)]) } :
            cut \in {1, 3},
            in1 \in { S \in SUBSET (1..5) : Cardinality(S) <= 2 },
            in2 \in {{3}} }

\* The records: an id, the user_id the API sent (none, empty, of user 1, of
\* user 2, of nobody in people_picker) and, on a time entry, the user_name the
\* API sent.
EnrichRecords(variant) ==
    { IF variant = "entries" THEN SetField(r, "user_name", "Ann") ELSE r :
        r \in { [f \in {"id"} |-> 1] }
              \cup { SetField([f \in {"id"} |-> 1], "user_id", u) :
                       u \in {"", "1", "2", "7"} } }

IdleEnrich ==
    /\ users_data = <<>>
    /\ e_variant = "entries"
    /\ e_in = <<>>
    /\ e_pc = "ready"
    /\ e_out = <<>>

InitEnrich ==
    /\ users_data = UsersData
    /\ groups_data \in EnrichGroupMaps
    /\ e_variant \in {"entries", "activities"}
    /\ e_in \in SeqsUpTo(EnrichRecords(e_variant), MaxRecords) \ {<<>>}
    /\ e_pc = "ready"
    /\ e_out = <<>>

\* One call of the enrichment function.
Enrich ==
    /\ e_pc = "ready"
    /\ e_in # <<>>
    /\ IF \E k \in 1..Len(groups_data) :
            get_breadcrumb_path(groups_data, groups_data[k].key, 0).raised
       THEN e_pc' = "raised" /\ e_out' = <<>>
       ELSE /\ e_pc' = "enriched"
            /\ e_out' = [k \in 1..Len(e_in) |->
                            EnrichRecord(e_in[k], e_variant, users_data, groups_data)]
    /\ UNCHANGED <<users_data, e_variant, e_in, groups_data, b_pc, b_id, b_result,
                   reqVars, fetchVars, loadVars, orchVars, batchVars, moreVars>>

NextEnrich == Enrich

\* ------------------------------------------------------------------------
\* TimeCampAPI.get_computer_activities and _get_computer_activities_batched
\* (common/api.py)
\* ------------------------------------------------------------------------
DateBatchSize == 20

Min(a, b) == IF a <= b THEN a ELSE b

\* dates[i:i + 20] when there are more than 20 dates, `dates` otherwise.
DateBatchOverlong(dates, i) == SubSeq(dates, i + 1, Min(i + DateBatchSize + 1, Len(dates)))
DateBatch(dates, i) ==
    IF Len(dates) > DateBatchSize
    THEN SubSeq(dates, i + 1, Min(i + DateBatchSize, Len(dates)))
    ELSE dates

\* `not user_ids or len(user_ids) == 1` is false: one request per user.
PerUser(user_ids) == Len(user_ids) >= 2

\* What a request that succeeds returns: the remote answers a (dates, users)
\* request with one activity per date.
Response(dates, user_ids) ==
    [k \in 1..Len(dates) |-> [date |-> dates[k], user_ids |-> user_ids]]

\* Whether a try/except of the loops catches the exception of a request: the
\* loop over users does, and so does the loop over date batches.
CaughtNever(dates, user_ids) == FALSE
Caught(dates, user_ids) == PerUser(user_ids) \/ Len(dates) > DateBatchSize

\* range(0, len(dates), 20): the offset after i.
NextOffsetSkips(i) == i + DateBatchSize + 1
NextOffset(i) == i + DateBatchSize

\* _get_computer_activities_batched(dates, include, user_ids) when every
\* request is answered.
RECURSIVE BatchedAllOk(_, _, _)
BatchedAllOk(dates, user_ids, n) ==
    IF ~PerUser(user_ids) THEN Response(dates, user_ids)
    ELSE IF n = 0 THEN <<>>
    ELSE BatchedAllOk(dates, user_ids, n - 1) \o Response(dates, <<user_ids[n]>>)

\* generate_date_range gives the caller's dates, one or more.
DateLists == { [k \in 1..n |-> k] : n \in 1..MaxDates }
UserIdLists == { [k \in 1..n |-> 100 + k] : n \in 0..MaxUsers }

IdleBatch ==
    /\ a_pc = "idle"
    /\ a_dates = <<>>
    /\ a_users = <<>>
    /\ a_i = 0
    /\ a_u = 1
    /\ a_requests = <<>>
    /\ a_result = <<>>

InitBatch ==
    /\ a_pc = "running"
    /\ a_dates \in DateLists
    /\ a_users \in UserIdLists
    /\ a_i = 0
    /\ a_u = 1
    /\ a_requests = <<>>
    /\ a_result = <<>>

\* _get_computer_activities_single_request for the date batch and the user the
\* loops are at, and what the loops do with its result or its exception.
SingleRequest(ok) ==
    /\ a_pc = "running"
    /\ LET date_batch == DateBatch(a_dates, a_i)
           user_ids == IF PerUser(a_users) THEN <<a_users[a_u]>> ELSE a_users
           response == IF ok THEN Response(date_batch, user_ids) ELSE <<>>
           caught == Caught(a_dates, a_users)
           more_users == PerUser(a_users) /\ a_u < Len(a_users)
           more_dates == Len(a_dates) > DateBatchSize
                            /\ NextOffset(a_i) < Len(a_dates)
       IN /\ a_requests' = Append(a_requests,
                                  [dates |-> date_batch, user_ids |-> user_ids,
                                   ok |-> ok, response |-> response])
          /\ a_result' = a_result \o response
          /\ IF ~ok /\ ~caught
             THEN a_pc' = "raised" /\ UNCHANGED <<a_i, a_u>>
             ELSE IF more_users
             THEN a_pc' = "running" /\ a_u' = a_u + 1 /\ UNCHANGED a_i
             ELSE IF more_dates
             THEN a_pc' = "running" /\ a_u' = 1 /\ a_i' = NextOffset(a_i)
             ELSE a_pc' = "returned" /\ UNCHANGED <<a_i, a_u>>
    /\ UNCHANGED <<a_dates, a_users, reqVars, fetchVars, loadVars, orchVars,
                   crumbVars, enrichVars, moreVars>>

NextBatch == \E ok \in BOOLEAN : SingleRequest(ok)

\* ------------------------------------------------------------------------
\* TimeCampAPI.get_user_settings and TimeCampAPI.get_applications: the loop
\* over id batches (common/api.py)
\* ------------------------------------------------------------------------
\* ids[i:i + batch_size]
IdBatchOverlapping(ids, i, batch_size) ==
    SubSeq(ids, i + 1, Min(i + batch_size + 1, Len(ids)))
IdBatch(ids, i, batch_size) == SubSeq(ids, i + 1, Min(i + batch_size, Len(ids)))

\* The batches of `for i in range(0, len(ids), batch_size)` from offset i on.
RECURSIVE IdBatches(_, _, _)
IdBatches(ids, i, batch_size) ==
    IF i >= Len(ids) THEN <<>>
    ELSE <<IdBatch(ids, i, batch_size)>> \o IdBatches(ids, i + batch_size, batch_size)

\* The remote: user 1 has the setting, applications 1 and 2 are known.
IdValues == {1, 2, 3}
SettingOf(format, user_id) == IF user_id = 1 THEN "1" ELSE None
RemoteApps(batch) ==
    { [id |-> batch[k], value |-> "fetched"] : k \in { j \in 1..Len(batch) : batch[j] # 3 } }

\* What the loop body adds to the dict for one answered batch: an entry per
\* user of the batch, whichever format the answer has (get_user_settings);
\* the apps of the answer when it is a dict (get_applications).
BatchEntries(fn, format, batch) ==
    IF fn = "get_user_settings"
    THEN { [id |-> batch[k], value |-> SettingOf(format, batch[k])] : k \in 1..Len(batch) }
    ELSE IF format = "dict" THEN RemoteApps(batch) ELSE {}

\* dict.update: the entries of `new` replace those of `old` with the same key.
Updated(old, new) ==
    { e \in old : \A n \in new : n.id # e.id } \cup new

RECURSIVE ResultOf(_, _, _, _)
ResultOf(fn, format, batches, k) ==
    IF k = 0 THEN {}
    ELSE Updated(ResultOf(fn, format, batches, k - 1),
                 BatchEntries(fn, format, batches[k]))

IdleIds ==
    /\ i_pc = "idle"
    /\ i_call = [fn |-> "none", ids |-> <<>>, batch_size |-> 1]
    /\ i_requests = <<>>
    /\ i_result = {}

\* One call fn(ids, batch_size=batch_size); `fail_at` is the request whose
\* _make_request raises (0: none does), `format` the shape of the answers.
IdsCall(fn, ids, batch_size, fail_at, format) ==
    LET batches == IdBatches(ids, 0, batch_size)
        failed == fail_at \in 1..Len(batches)
        made == IF failed THEN fail_at ELSE Len(batches)
    IN /\ i_pc = "idle"
       /\ i_call' = [fn |-> fn, ids |-> ids, batch_size |-> batch_size]
       /\ i_requests' = SubSeq(batches, 1, made)
       /\ i_pc' = IF failed THEN "raised" ELSE "returned"
       /\ i_result' = IF failed THEN {} ELSE ResultOf(fn, format, batches, made)
       /\ UNCHANGED <<priorVars, cacheVars, filterVars, nameVars>>

NextIds ==
    \E fn \in {"get_user_settings", "get_applications"},
       ids \in SeqsUpTo(IdValues, MaxIds),
       batch_size \in 1..MaxBatchSize,
       fail_at \in 0..MaxIds,
       format \in {"dict", "list"} :
        IdsCall(fn, ids, batch_size, fail_at, format)

\* ------------------------------------------------------------------------
\* TimeCampAPI.get_applications_with_cache and the cache file (common/api.py)
\* ------------------------------------------------------------------------
DefaultAppBatchSize == 200

\* applications_cache.json: absent, holding a JSON document ("ok"), or cut
\* short by a write that failed after open(..., 'w') ("truncated").
AbsentFile == [state |-> "absent", apps |-> {}]
TruncatedFile == [state |-> "truncated", apps |-> {}]
StoredFile(cache) == [state |-> "ok", apps |-> cache]

\* _load_applications_cache: {} when the file does not exist, when it does
\* not parse, or when reading it raises IOError.
LoadApplicationsCache(file, read_ok) ==
    IF file.state = "ok" /\ read_ok THEN file.apps ELSE {}

\* _save_applications_cache: the file holds the cache; or open() raised and
\* the file is as it was; or the write raised after open() had emptied it.
\* Every IOError is logged and swallowed.
SaveApplicationsCache(file, cache, save) ==
    CASE save = "saved" -> StoredFile(cache)
      [] save = "open_failed" -> file
      [] OTHER -> TruncatedFile

CachedIds(cache) == { e.id : e \in cache }

\* missing_ids = [app_id for app_id in application_ids if app_id not in cache]
MissingIdsAll(application_ids, cache) == application_ids
MissingIds(application_ids, cache) ==
    LET Missing(app_id) == app_id \notin CachedIds(cache)
    IN SelectSeq(application_ids, Missing)

\* get_applications(missing_ids, date, batch_size) when every request succeeds
GetApplications(ids, batch_size) ==
    LET batches == IdBatches(ids, 0, batch_size)
    IN ResultOf("get_applications", "dict", batches, Len(batches))

IdleCache ==
    /\ c_file = AbsentFile
    /\ c_calls = 0
    /\ c_last = [pc |-> "idle", ids |-> <<>>, before |-> AbsentFile, asked |-> <<>>,
                 result |-> {}, read_ok |-> TRUE, save |-> "none"]

\* One call get_applications_with_cache(application_ids): `read_ok` is whether
\* reading an existing file works, `api_ok` whether get_applications returns,
\* `save` what the write of the file does.
GetApplicationsWithCache(application_ids, read_ok, api_ok, save) ==
    LET cache == LoadApplicationsCache(c_file, read_ok)
        missing_ids == MissingIds(application_ids, cache)
        merged == IF missing_ids # <<>>
                  THEN Updated(cache, GetApplications(missing_ids, DefaultAppBatchSize))
                  ELSE cache
        ids == { application_ids[k] : k \in 1..Len(application_ids) }
        raised == missing_ids # <<>> /\ ~api_ok
        written == missing_ids # <<>> /\ api_ok
    IN /\ c_calls < MaxCacheCalls
       /\ c_calls' = c_calls + 1
       /\ c_file' = IF written THEN SaveApplicationsCache(c_file, merged, save)
                    ELSE c_file
       /\ c_last' = [pc |-> IF raised THEN "raised" ELSE "returned",
                     ids |-> application_ids,
                     before |-> c_file,
                     asked |-> missing_ids,
                     result |-> IF raised THEN {} ELSE { e \in merged : e.id \in ids },
                     read_ok |-> (c_file.state = "ok" => read_ok),
                     save |-> IF written THEN save ELSE "none"]
       /\ UNCHANGED <<priorVars, idsVars, filterVars, nameVars>>

NextCache ==
    \E application_ids \in SeqsUpTo(IdValues, MaxCacheIds),
       read_ok \in BOOLEAN, api_ok \in BOOLEAN,
       save \in {"saved", "open_failed", "truncated"} :
        GetApplicationsWithCache(application_ids, read_ok, api_ok, save)

\* ------------------------------------------------------------------------
\* get_entries_with_last_modified_filter with its timestamps as the strings
\* the code compares (fetch_timecamp_data.py)
\* ------------------------------------------------------------------------
\* strftime('%Y-%m-%d %H:%M:%S') of the hour t, as its characters that vary
\* here: two digits of the day, two of the hour, each zero-padded.
Digits(n) == IF n < 10 THEN <<n>> ELSE <<n \div 10, n % 10>>
StrftimeUnpadded(t) == Digits(t \div 24) \o Digits(t % 24)
Strftime(t) == <<(t \div 24) \div 10, (t \div 24) % 10, (t % 24) \div 10, (t % 24) % 10>>

\* Python's >= on two strings: by the first character that differs, a proper
\* prefix being smaller.
RECURSIVE StrGeq(_, _)
StrGeq(a, b) ==
    IF b = <<>> THEN TRUE
    ELSE IF a = <<>> THEN FALSE
    ELSE IF Head(a) # Head(b) THEN Head(a) > Head(b)
    ELSE StrGeq(Tail(a), Tail(b))

\* entry.get('last_modify', ''): the empty string is written <<>>.
LastModifyOf(entry) ==
    IF "last_modify" \in DOMAIN entry THEN entry.last_modify ELSE <<>>

\* The function at hour t on the entries api.get_time_entries returned;
\* modified_since_hours = 0 stands for 0 and for None.
get_entries_with_last_modified_filter(entries, from_date, to_date, modified_since_hours, t) ==
    IF from_date = get_yesterday(t) \/ to_date = get_yesterday(t)
    THEN entries
    ELSE IF modified_since_hours # 0 /\ entries # <<>>
         THEN LET cutoff_timestamp == Strftime(t - modified_since_hours)
                  Kept(entry) == /\ LastModifyOf(entry) # <<>>
                                 /\ StrGeq(LastModifyOf(entry), cutoff_timestamp)
              IN SelectSeq(entries, Kept)
         ELSE entries

\* The records a day's request may return, modified around the cutoffs of a
\* call made at hour 263 (23:00 of day 10) or 264 (0:00 of day 11).
\* last_modify comes from the API as 'YYYY-MM-DD HH:MM:SS'.
ApiTimestamp(t) ==
    <<(t \div 24) \div 10, (t \div 24) % 10, (t % 24) \div 10, (t % 24) % 10>>
ModifiedAt == {95, 215, 230, 239, 262}
FilterRecords ==
    { [id |-> i, last_modify |-> ApiTimestamp(m)] : i \in {1}, m \in ModifiedAt }
    \cup { [id |-> 2, last_modify |-> <<>>], [id |-> 3] }
FilterHours == {0, 1, 24, 48}

IdleFilter ==
    /\ m_call = [entries |-> <<>>, from_date |-> 0, modified_since_hours |-> 0, at |-> 0]
    /\ m_out = <<>>

FilterCall(entries, from_date, modified_since_hours, t) ==
    /\ m_call.at = 0
    /\ m_call' = [entries |-> entries, from_date |-> from_date,
                  modified_since_hours |-> modified_since_hours, at |-> t]
    /\ m_out' = get_entries_with_last_modified_filter(entries, from_date, from_date,
                                                      modified_since_hours, t)
    /\ UNCHANGED <<priorVars, idsVars, cacheVars, nameVars>>

NextFilter ==
    \E t \in {263, 264}, back \in {1, 2},
       modified_since_hours \in FilterHours,
       entries \in SeqsUpTo(FilterRecords, MaxFiltered) :
        FilterCall(entries, DateOf(t) - back, modified_since_hours, t)

\* ------------------------------------------------------------------------
\* get_application_name_fallback (fetch_computer_time_data.py)
\* ------------------------------------------------------------------------
IsSpace(c) == c \in {" ", "\t", "\n"}

\* str.strip(): the string without its leading and trailing whitespace.
RECURSIVE LStrip(_)
LStrip(str) ==
    IF Len(str) >= 1 /\ IsSpace(SubSeq(str, 1, 1)) THEN LStrip(Tail(str)) ELSE str
RECURSIVE RStrip(_)
RStrip(str) ==
    IF Len(str) >= 1 /\ IsSpace(SubSeq(str, Len(str), Len(str)))
    THEN RStrip(SubSeq(str, 1, Len(str) - 1))
    ELSE str
StripLeading(str) == LStrip(str)
Strip(str) == RStrip(LStrip(str))

\* app_details.get(field, '') or ''
GetOrEmpty(app_details, field) ==
    IF field \in DOMAIN app_details /\ app_details[field] \notin {None, ""}
    THEN app_details[field]
    ELSE ""

get_application_name_fallback(app_details) ==
    LET full_name == GetOrEmpty(app_details, "full_name")
        additional_info == GetOrEmpty(app_details, "aditional_info")
        app_name == GetOrEmpty(app_details, "app_name")
    IN IF Strip(full_name) # "" THEN Strip(full_name)
       ELSE IF Strip(additional_info) # "" THEN Strip(additional_info)
       ELSE Strip(app_name)

\* The values a field of an application record may hold: null, or a name
\* (possibly empty, possibly with whitespace inside) between runs of blanks.
RECURSIVE Pads(_)
Pads(n) == IF n = 0 THEN {""} ELSE Pads(n - 1) \cup { pad \o " " : pad \in Pads(n - 1) }
NameValues(n) ==
    { l \o core \o r : l \in Pads(n), r \in Pads(n), core \in {"", "a", "b c"} }
    \cup {"\t", None}

\* The application records: each of the three fields present or not.
NameFields == {"full_name", "aditional_info", "app_name"}
AppDetails(n) ==
    UNION { [present -> NameValues(n)] : present \in SUBSET NameFields }

IdleName == n_in = <<>> /\ n_out = "-"

NameCall(app_details) ==
    /\ n_out = "-"
    /\ n_in' = app_details
    /\ n_out' = get_application_name_fallback(app_details)
    /\ UNCHANGED <<priorVars, idsVars, cacheVars, filterVars>>

NextName == \E app_details \in AppDetails(MaxPad) : NameCall(app_details)

IdleMore == IdleIds /\ IdleCache /\ IdleFilter /\ IdleName

InitExt ==
    InitOrch /\ IdleCrumb /\ groups_data = <<>> /\ IdleEnrich /\ IdleBatch /\ IdleMore

CoreIdle == InitRequest /\ InitFetch /\ LoadIdle /\ dest = AbsentTable
Init == CoreIdle /\ InitExt

SpecRequest == Init /\ [][NextRequest]_vars
SpecFetch == Init /\ [][NextFetch]_vars
InitSpecLoad == InitRequest /\ InitFetch /\ InitLoad /\ InitExt
SpecLoad == InitSpecLoad /\ [][NextLoad]_vars
SpecLoadPair == InitSpecLoad /\ [][NextLoadPair]_vars
SpecOrch == Init /\ [][NextOrch]_vars
InitSpecCrumb ==
    CoreIdle /\ InitOrch /\ InitCrumb /\ IdleEnrich /\ IdleBatch /\ IdleMore
SpecCrumb == InitSpecCrumb /\ [][NextCrumb]_vars
InitSpecEnrich ==
    CoreIdle /\ InitOrch /\ IdleCrumb /\ InitEnrich /\ IdleBatch /\ IdleMore
SpecEnrich == InitSpecEnrich /\ [][NextEnrich]_vars
InitSpecBatch ==
    /\ CoreIdle /\ InitOrch /\ IdleCrumb /\ groups_data = <<>> /\ IdleEnrich
    /\ InitBatch /\ IdleMore
SpecBatch == InitSpecBatch /\ [][NextBatch]_vars
SpecIds == Init /\ [][NextIds]_vars
SpecCache == Init /\ [][NextCache]_vars
SpecFilter == Init /\ [][NextFilter]_vars
SpecName == Init /\ [][NextName]_vars

\* ------------------------------------------------------------------------
\* Properties of _make_request
\* ------------------------------------------------------------------------
HttpIdx == { i \in 1..Len(events) : events[i].type = "http" }
SleepIdx == { i \in 1..Len(events) : events[i].type = "sleep" }
Is429(e) == e.type = "http" /\ e.status = 429

\* The k-th HTTP attempt of the call is event 2k-1, the sleep after it event 2k.
\* C1: one call issues at most 5 HTTP attempts; attempt k+1 is issued only if
\* attempt k returned status 429, and exactly one sleep of 5*k time units lies
\* between attempt k and attempt k+1.
C1_BoundedLinearBackoff ==
    /\ Cardinality(HttpIdx) <= 5
    /\ \A i \in 1..Len(events) :
        /\ (i % 2 = 1) <=> (events[i].type = "http")
        /\ (i % 2 = 0) =>
            /\ events[i].type = "sleep"
            /\ events[i].secs = 5 * (i \div 2)
            /\ events[i-1].kind = "response"
            /\ events[i-1].status = 429
    /\ rq_pc = "sleep" => Is429(events[Len(events)])

\* A call that made all five attempts, sleeping 5, 10, 15 and 20 between them.
C1_Witness ==
    /\ Cardinality(HttpIdx) = 5
    /\ [i \in SleepIdx |-> events[i].secs] = (2 :> 5) @@ (4 :> 10) @@ (6 :> 15) @@ (8 :> 20)

AllFive429 ==
    /\ Cardinality(HttpIdx) = 5
    /\ \A i \in HttpIdx : Is429(events[i])

\* C2: when all 5 attempts of a call return 429 the call raises the "Failed
\* after 5 retries" error, distinct from the error of a non-429 HTTP error.
C2_BudgetExceededError ==
    (rq_pc = "raised" /\ AllFive429) => rq_error = RetryBudgetExceeded

\* Five 429 answers end the call in the HTTPError raise_for_status raised.
C2_Witness == rq_pc = "raised" /\ AllFive429 /\ rq_error = HTTPError(429)

IsHardFailure(e) ==
    /\ e.type = "http"
    /\ \/ e.kind = "exception"
       \/ e.kind = "response" /\ RaisesForStatus(e.status) /\ e.status # 429

\* C3: a non-429 error response or a transport error at any attempt ends the
\* call at once with that error: no sleep and no HTTP attempt follows it.
C3_HardFailureRaisesAtOnce ==
    \A i \in 1..Len(events) :
        IsHardFailure(events[i]) =>
            /\ i = Len(events)
            /\ rq_pc = "raised"
            /\ rq_error = IF events[i].kind = "exception"
                          THEN TransportError(events[i].status)
                          ELSE HTTPError(events[i].status)

\* A 500 on the fifth attempt, and a transport error after a retry.
C3_Witness ==
    /\ Len(events) >= 3
    /\ IsHardFailure(events[Len(events)])
    /\ rq_pc = "raised"

\* ------------------------------------------------------------------------
\* Properties of fetch_incremental_data and the dedup pass
\* ------------------------------------------------------------------------
Returned == {"returned", "empty", "deduped"}

\* The concatenation of what the first k requests contributed.
RECURSIVE KeptUpTo(_)
KeptUpTo(k) == IF k = 0 THEN <<>> ELSE KeptUpTo(k - 1) \o fetch_log[k].kept

LastFetch == fetch_log[Len(fetch_log)]

C5_FetchPlan ==
    /\ \A k \in 1..Len(fetch_log) :
        /\ fetch_log[k].offset = k
        /\ fetch_log[k].mode = IF k = 1 THEN "full" ELSE "modified"
    /\ f_pc \in Returned => Len(fetch_log) = days_back
    /\ (fetch_log # <<>> /\ LastFetch.ok) =>
        LastFetch.kept =
            IF LastFetch.offset = 1
            THEN last_fetched
            ELSE SelectSeq(last_fetched,
                           LAMBDA e : /\ e.last_modify # 0
                                      /\ e.last_modify >= LastFetch.at - 48)

\* Three days fetched: yesterday kept a record without last_modify, day -2
\* kept a record modified at the cutoff, day -3 dropped what it was sent.
C5_Witness ==
    /\ f_pc \in Returned
    /\ Len(fetch_log) = 3
    /\ \E k \in 1..Len(fetch_log[1].kept) : fetch_log[1].kept[k].last_modify = 0
    /\ fetch_log[2].kept # <<>>
    /\ fetch_log[3].ok /\ fetch_log[3].kept = <<>> /\ last_fetched # <<>>

IdsOf(entries) == { entries[k].id : k \in 1..Len(entries) }
FirstIdx(entries, id) ==
    CHOOSE k \in 1..Len(entries) :
        entries[k].id = id /\ \A m \in 1..(k - 1) : entries[m].id # id

\* C6: the dedup pass outputs one record per distinct id, the first record of
\* that id in the list, in the order of the input.
C6_DedupKeepsFirst ==
    f_pc = "deduped" =>
        /\ IdsOf(unique_entries) = IdsOf(all_entries)
        /\ Len(unique_entries) = Cardinality(IdsOf(all_entries))
        /\ \A j \in 1..Len(unique_entries) :
            unique_entries[j] =
                all_entries[FirstIdx(all_entries, unique_entries[j].id)]
        /\ \A i, j \in 1..Len(unique_entries) :
            i < j => FirstIdx(all_entries, unique_entries[i].id)
                        < FirstIdx(all_entries, unique_entries[j].id)

\* Yesterday's copy of an id won over a different, later fetched copy.
C6_Witness ==
    /\ f_pc = "deduped"
    /\ Len(unique_entries) = 2
    /\ Len(all_entries) = 3
    /\ all_entries[3].id = all_entries[1].id
    /\ all_entries[3] # all_entries[1]
    /\ unique_entries = <<all_entries[1], all_entries[2]>>

\* ------------------------------------------------------------------------
\* Properties of upload_to_bigquery
\* ------------------------------------------------------------------------
CallsOf(p) == { l_calls[p][k] : k \in 1..Len(l_calls[p]) }
LastCall(p) == l_calls[p][Len(l_calls[p])]
Exited(p) == l_pc[p] \in {"returned", "raised"}

RowsWithId(rows, id) == { j \in 1..Len(rows) : rows[j]["id"] = id }
OnExpectedColumns(row) == [c \in SchemaColumns |-> row[c]]

\* C7: a batch loaded twice in succession leaves one destination row per id
\* of the batch, holding the values of the batch, and the second load inserts
\* no row.
C7_UpsertIdempotent ==
    \A p \in Loaders :
        (l_pc[p] = "returned" /\ l_repeat[p]) =>
            /\ \A k \in 1..Len(l_batch[p]) :
                /\ Cardinality(RowsWithId(dest.rows, l_batch[p][k].id)) = 1
                /\ \A j \in RowsWithId(dest.rows, l_batch[p][k].id) :
                    OnExpectedColumns(dest.rows[j]) = StagedRow(l_batch[p][k])
            /\ Len(dest.rows) = Len(l_start[p].rows)

\* A two-record batch loaded a second time.
C7_Witness ==
    /\ l_pc[1] = "returned" /\ l_repeat[1]
    /\ Len(l_batch[1]) = 2
    /\ Len(dest.rows) = 2

\* The destination rows the MERGE of the running execution found: none after
\* the table was created by it, the rows the execution started with otherwise.
PreMergeRows(p) ==
    IF "create_table" \in CallsOf(p) THEN <<>> ELSE l_start[p].rows

MergeSucceeded(p) ==
    /\ l_pc[p] = "cleanup"
    /\ l_err[p] = "none"
    /\ LastCall(p) = "merge"

\* C8: after a successful merge, a staged row whose id was in the destination
\* has overwritten every non-key column of that row (a blank value too), and
\* a staged row whose id was not there has been inserted.
C8_MergeOverwritesOrInserts ==
    \A p \in Loaders :
        MergeSucceeded(p) =>
            \A k \in 1..Len(l_batch[p]) :
                LET s == StagedRow(l_batch[p][k])
                    before == RowsWithId(PreMergeRows(p), s["id"])
                    after == RowsWithId(dest.rows, s["id"])
                IN IF before # {}
                   THEN /\ after = before
                        /\ \A j \in after :
                            \A c \in SchemaColumns \ {"id"} :
                                dest.rows[j][c] = s[c]
                   ELSE /\ Cardinality(after) = 1
                        /\ \A j \in after :
                            /\ j > Len(PreMergeRows(p))
                            /\ OnExpectedColumns(dest.rows[j]) = s

\* A blank staged record replaced the prior row of id 1, and id 2 was inserted.
C8_Witness ==
    /\ MergeSucceeded(1)
    /\ Len(PreMergeRows(1)) = 1
    /\ PreMergeRows(1)[1]["email"] = "p"
    /\ Len(dest.rows) = 2
    /\ dest.rows[1]["id"] = 1 /\ dest.rows[1]["email"] = ""
    /\ dest.rows[2]["id"] = 2

\* The existing table lacks an expected column or has it with another type.
LacksOrRetypes(schema) ==
    \/ SchemaColumns \ DOMAIN schema # {}
    \/ \E c \in SchemaColumns \cap DOMAIN schema : schema[c] # ExpectedSchema[c]

\* C9 as stated: whatever the difference between the existing and the expected
\* schema (an additional column included), the table is dropped and recreated
\* and a load that returns leaves exactly the rows of the batch.
C9_AnySchemaDifferenceRecreates ==
    \A p \in Loaders :
        (l_pc[p] = "returned" /\ l_start[p].exists
            /\ l_start[p].schema # ExpectedSchema) =>
            /\ "delete_table" \in CallsOf(p)
            /\ dest.rows = StagedRows(l_batch[p])

\* C9 amended: a table that lacks an expected column or holds one with another
\* type is dropped and created anew before anything is staged, and a load that
\* returns leaves exactly the rows of the batch; a table that only has a column
\* the expected schema does not have is never dropped.
C9_ExpectedColumnDriftRecreates ==
    \A p \in Loaders :
        /\ (l_start[p].exists /\ LacksOrRetypes(l_start[p].schema)) =>
            /\ "load" \in CallsOf(p) =>
                (Len(l_calls[p]) >= 4
                    /\ SubSeq(l_calls[p], 1, 4) =
                        <<"get_table", "delete_table", "create_table", "load">>)
            /\ l_pc[p] = "returned" =>
                /\ dest.schema = ExpectedSchema
                /\ dest.rows = StagedRows(l_batch[p])
        /\ (l_start[p].exists /\ ~LacksOrRetypes(l_start[p].schema)) =>
            "delete_table" \notin CallsOf(p)

\* A retyped table holding a row of id 1 was replaced by one holding only the
\* batch, which has no record of id 1.
C9_Witness ==
    /\ l_pc[1] = "returned"
    /\ l_start[1].exists
    /\ l_start[1].schema = RetypedColumnSchema
    /\ RowsWithId(l_start[1].rows, 1) # {}
    /\ RowsWithId(dest.rows, 1) = {}
    /\ dest.rows = StagedRows(l_batch[1])

\* C10 as stated: every execution, however it ends, has tried to delete the
\* temporary table.
C10_EveryExitCleansUp ==
    \A p \in Loaders : Exited(p) => "delete_temp" \in CallsOf(p)

\* C10 amended: every execution that got to the staging load tries to delete
\* the temporary table last, whether it returns or raises; an execution that
\* ends before, on a failed drop or create, raises without trying.
C10_CleanupOnceStaged ==
    \A p \in Loaders :
        Exited(p) =>
            IF "load" \in CallsOf(p)
            THEN /\ LastCall(p) = "delete_temp"
                 /\ Cardinality({ k \in 1..Len(l_calls[p]) :
                                     l_calls[p][k] = "delete_temp" }) = 1
            ELSE /\ l_pc[p] = "raised"
                 /\ l_err[p] \in {"drop", "create"}
                 /\ "delete_temp" \notin CallsOf(p)

\* A failed merge was followed by the delete of the temporary table.
C10_Witness ==
    /\ l_pc[1] = "raised"
    /\ l_err[1] = "merge"
    /\ Len(l_calls[1]) >= 2
    /\ l_calls[1][Len(l_calls[1]) - 1] = "merge"
    /\ LastCall(1) = "delete_temp"

\* C11: a failed delete of the temporary table never changes how the
\* execution ends: after a successful merge it still returns, the batch being
\* in the destination, and after a failed staging load or merge it still
\* raises that failure, never the failure of the delete.
C11_CleanupFailureIsSwallowed ==
    \A p \in Loaders :
        (Exited(p) /\ l_cleaned[p] = "failed") =>
            /\ l_err[p] \in {"none", "load", "merge"}
            /\ l_pc[p] = (IF l_err[p] = "none" THEN "returned" ELSE "raised")
            /\ l_calls[p][Len(l_calls[p]) - 1] =
                    (IF l_err[p] = "load" THEN "load" ELSE "merge")
            /\ l_err[p] = "none" =>
                    \A k \in 1..Len(l_batch[p]) :
                        RowsWithId(dest.rows, l_batch[p][k].id) # {}

\* A load returned although the temporary table it staged could not be
\* deleted and is still in the dataset.
C11_Witness ==
    /\ l_pc[1] = "returned"
    /\ l_cleaned[1] = "failed"
    /\ HasTemp(temps, l_temp[1])
    /\ RowsWithId(dest.rows, 2) # {}

\* ------------------------------------------------------------------------
\* Properties of the orchestrator
\* ------------------------------------------------------------------------
ExitedZero(k) == ~o_log[k].raised /\ o_log[k].code = 0

\* C12: stage 2 is started only after stage 1 exited with code 0; after a
\* non-zero exit of stage 1 stage 2 is never started, what stage 1 wrote stays
\* in the bucket and the orchestrator exits non-zero; the orchestrator exits
\* 0 only if both stages exited 0.
C12_Stage2OnlyAfterStage1Success ==
    /\ \A k \in 1..Len(o_log) :
        o_log[k].script = "destination_googlebigquery.py" =>
            /\ k = 2
            /\ o_log[1].script = "fetch_timecamp_data.py"
            /\ ExitedZero(1)
    /\ (o_log # <<>> /\ ~ExitedZero(1)) =>
        /\ Len(o_log) = 1
        /\ o_pc = "exited"
        /\ o_exit \notin {0, NoExit}
        /\ gcs = o_gcs0 + o_log[1].wrote
    /\ o_exit = 0 =>
        /\ Len(o_log) = 2
        /\ ExitedZero(1) /\ ExitedZero(2)

\* Stage 1 wrote an object and exited 1: the orchestrator exited 1 without
\* starting stage 2, the object still in the bucket.
C12_Witness ==
    /\ o_pc = "exited"
    /\ Len(o_log) = 1
    /\ o_log[1].code = 1 /\ o_log[1].wrote = 1
    /\ o_exit = 1
    /\ gcs = o_gcs0 + 1

\* ------------------------------------------------------------------------
\* Properties of get_breadcrumb_path
\* ------------------------------------------------------------------------
\* The id a key or a parent_id stands for, whichever form it is written in.
BareId(s) == IF StartsWithG(s) THEN DropFirst(s) ELSE s
IsRootGroup(g) == IsRootParent(g.parent_id)
ParentsOf(groups, g) ==
    { k \in 1..Len(groups) : BareId(groups[k].key) = BareId(g.parent_id) }

\* The names from the root down to groups[k], following parent_id for at most
\* `fuel` steps; <<>> when no root is reached.
RECURSIVE PathFromRoot(_, _, _)
PathFromRoot(groups, k, fuel) ==
    IF IsRootGroup(groups[k]) THEN <<groups[k].name>>
    ELSE IF fuel = 0 \/ ParentsOf(groups, groups[k]) = {} THEN <<>>
    ELSE LET up == PathFromRoot(groups,
                                CHOOSE j \in ParentsOf(groups, groups[k]) : TRUE,
                                fuel - 1)
         IN IF up = <<>> THEN <<>> ELSE Append(up, groups[k].name)

\* A forest: one key per group, every non-root group's parent in the map, and
\* no group its own ancestor.
IsForest(groups) ==
    /\ \A i, j \in 1..Len(groups) :
        i # j => BareId(groups[i].key) # BareId(groups[j].key)
    /\ \A k \in 1..Len(groups) :
        /\ IsRootGroup(groups[k]) \/ ParentsOf(groups, groups[k]) # {}
        /\ PathFromRoot(groups, k, Len(groups)) # <<>>

\* C13: in a forest, the call on a group of the map returns the names from
\* the root down to that group, as many as the group is deep; on a root group
\* the one-element sequence of its name.
C13_BreadcrumbRootToLeaf ==
    (b_pc = "done" /\ IsForest(groups_data) /\ b_id \in KeysOf(groups_data)) =>
        /\ ~b_result.raised
        /\ b_result.path =
            PathFromRoot(groups_data,
                         CHOOSE k \in 1..Len(groups_data) : groups_data[k].key = b_id,
                         Len(groups_data))

\* Group "1" lies under the root "3" in a map keyed without the prefix: the
\* call returns its name alone.
C13_Witness ==
    /\ b_pc = "done"
    /\ IsForest(groups_data)
    /\ KeysOf(groups_data) = {"1", "3"}
    /\ b_id = "1"
    /\ GroupAt(groups_data, "1").parent_id = "3"
    /\ b_result = Returns(<<"1">>)

\* C14: whatever the map and the id, cyclic parent references included, the
\* call ends by returning a sequence.
C14_WalkReturnsSequence == b_pc = "done" => ~b_result.raised

\* On a group that is its own ancestor the call ends in RecursionError.
C14_Witness ==
    /\ b_pc = "done"
    /\ b_result = RecursionError
    /\ b_id \in KeysOf(groups_data)

ToggledPrefix(s) == IF StartsWithG(s) THEN DropFirst(s) ELSE WithG(s)

\* C15: an id that is not a key is looked up again with the "g" prefix
\* toggled, and the empty sequence is returned only if that form is not a key
\* either.
C15_PrefixToggledOnMiss ==
    (b_pc = "done" /\ b_id \notin KeysOf(groups_data) /\ ~b_result.raised) =>
        (b_result.path = <<>> <=> ToggledPrefix(b_id) \notin KeysOf(groups_data))

\* Id "g1" is not resolved in a map that has the key "1".
C15_Witness ==
    /\ b_pc = "done"
    /\ b_id = "g1"
    /\ KeysOf(groups_data) = {"1"}
    /\ b_result = Returns(<<>>)

\* ------------------------------------------------------------------------
\* Properties of the enrichment
\* ------------------------------------------------------------------------
Enriched == e_pc = "enriched"
UserIdOf(r) == GetField(r, "user_id")
IsKnown(r) ==
    UserIdOf(r) \notin {None, ""} /\ UserIdOf(r) \in UserInfoKeys(users_data)

\* The groups, in the order of groups_data, whose users hold a key of the
\* user of record r.
GroupsListing(r) ==
    { k \in 1..Len(groups_data) :
        \E m \in 1..Len(groups_data[k].users) :
            NumericId(groups_data[k].users[m]) = NumericId(UserIdOf(r)) }
PrimaryGroup(r) ==
    groups_data[CHOOSE k \in GroupsListing(r) : \A j \in GroupsListing(r) : k <= j]
PrimaryPath(r) == get_breadcrumb_path(groups_data, PrimaryGroup(r).key, 0).path

GroupFields ==
    {"group_name"} \cup { LevelFields[n] : n \in 1..4 }
IsBlank(r, fields) == \A f \in fields : f \in DOMAIN r /\ r[f] = ""

\* C16: the group named on the records of a user of several groups is the
\* first group, in the order of the group map, whose users hold that user;
\* every record of the user gets that group.
C16_FirstGroupInMapOrder ==
    Enriched =>
        \A k \in 1..Len(e_out) :
            (IsKnown(e_in[k]) /\ GroupsListing(e_in[k]) # {}) =>
                /\ "group_name" \in DOMAIN e_out[k]
                /\ e_out[k]["group_name"] = PrimaryGroup(e_in[k]).name
                /\ e_out[k][LevelFields[1]] = PrimaryPath(e_in[k])[1]

\* Two records of user 1, a member of two groups, in a map listed leaf
\* first: both carry the group that comes first in the map.
C16_Witness ==
    /\ Enriched
    /\ Len(e_out) = 2
    /\ UserIdOf(e_in[1]) = "1" /\ UserIdOf(e_in[2]) = "1"
    /\ groups_data[1].key = "g5"
    /\ Cardinality(GroupsListing(e_in[1])) = 2
    /\ e_out[1]["group_name"] = e_out[2]["group_name"]
    /\ e_out[1]["group_name"] = "g4"

NameField(variant) == IF variant = "activities" THEN "display_name" ELSE "user_name"

\* C17 as stated: a record whose user_id is missing or matches no user has
\* email, the name field (user_name on a time entry, display_name on an
\* activity), group_name and the four level fields present and empty.
C17_UnmatchedAllFieldsBlank ==
    Enriched =>
        \A k \in 1..Len(e_out) :
            ~IsKnown(e_in[k]) =>
                IsBlank(e_out[k], {"email", NameField(e_variant)} \cup GroupFields)

\* C17 amended: such a record has email, group_name and the four level fields
\* present and empty, and display_name too when it is an activity; the
\* user_name of a time entry is left as the API sent it.
C17_UnmatchedWrittenFieldsBlank ==
    Enriched =>
        \A k \in 1..Len(e_out) :
            ~IsKnown(e_in[k]) =>
                /\ IsBlank(e_out[k], {"email"} \cup GroupFields)
                /\ e_variant = "activities" => IsBlank(e_out[k], {"display_name"})
                /\ e_variant = "entries" =>
                    /\ "display_name" \notin DOMAIN e_out[k]
                    /\ e_out[k]["user_name"] = e_in[k]["user_name"]

\* A time entry without user_id and one of an unknown user: blank fields,
\* user_name untouched.
C17_Witness ==
    /\ Enriched
    /\ e_variant = "entries"
    /\ Len(e_out) = 2
    /\ "user_id" \notin DOMAIN e_in[1]
    /\ UserIdOf(e_in[2]) = "7"
    /\ e_out[1]["email"] = "" /\ e_out[2]["group_name"] = ""
    /\ e_out[2]["user_name"] = "Ann"

\* C18: a record of a known user who is in no group has group_name and the
\* four level fields present and empty.
C18_NoGroupFieldsBlank ==
    Enriched =>
        \A k \in 1..Len(e_out) :
            (IsKnown(e_in[k]) /\ GroupsListing(e_in[k]) = {}) =>
                IsBlank(e_out[k], GroupFields)

\* The record of user 1, in no group, has an email and no group field.
C18_Witness ==
    /\ Enriched
    /\ UserIdOf(e_in[1]) = "1"
    /\ GroupsListing(e_in[1]) = {}
    /\ e_out[1]["email"] = "ann@example.com"
    /\ DOMAIN e_out[1] \cap GroupFields = {}

\* C19: with p the breadcrumb path of the user's primary group, level field
\* i holds p[i] for i <= min(4, Len(p)) and "" for Len(p) < i <= 4; no other
\* level field is written.
C19_FourLevelsRootFirst ==
    Enriched =>
        \A k \in 1..Len(e_out) :
            (IsKnown(e_in[k]) /\ GroupsListing(e_in[k]) # {}) =>
                /\ \A n \in 1..4 :
                    /\ LevelFields[n] \in DOMAIN e_out[k]
                    /\ e_out[k][LevelFields[n]] =
                        (IF n <= Len(PrimaryPath(e_in[k]))
                         THEN PrimaryPath(e_in[k])[n] ELSE "")
                /\ DOMAIN e_out[k] =
                    DOMAIN e_in[k] \cup GroupFields
                        \cup (IF e_variant = "activities"
                              THEN {"email", "display_name"} ELSE {"email"})

\* A user whose only group is five deep: the four level fields hold the four
\* names nearest the root, the group's own name is dropped.
C19_Witness ==
    /\ Enriched
    /\ UserIdOf(e_in[1]) = "1"
    /\ GroupsListing(e_in[1]) # {}
    /\ PrimaryPath(e_in[1]) = <<"g1", "g2", "g3", "g4", "g5">>
    /\ [n \in 1..4 |-> e_out[1][LevelFields[n]]] = <<"g1", "g2", "g3", "g4">>

\* ------------------------------------------------------------------------
\* Properties of get_computer_activities
\* ------------------------------------------------------------------------
\* The consecutive slices of at most 20 dates.
NumChunks(dates) == (Len(dates) + 19) \div 20
Chunk(dates, c) == SubSeq(dates, 20 * (c - 1) + 1, Min(20 * c, Len(dates)))

RECURSIVE ResponsesUpTo(_)
ResponsesUpTo(k) ==
    IF k = 0 THEN <<>> ELSE ResponsesUpTo(k - 1) \o a_requests[k].response

\* C20: every activity request carries at most 20 dates and, when two or
\* more user ids were passed, exactly one of them; a call that returns has
\* made exactly one request per (date chunk, user id) pair, chunk by chunk
\* and user by user, the chunks being the consecutive slices of at most 20
\* dates, and returns the results concatenated in the order of the requests.
C20_OneRequestPerChunkAndUser ==
    /\ \A k \in 1..Len(a_requests) :
        /\ Len(a_requests[k].dates) <= 20
        /\ Len(a_users) >= 2 => Len(a_requests[k].user_ids) = 1
    /\ a_result = ResponsesUpTo(Len(a_requests))
    /\ (a_pc = "returned" /\ Len(a_users) >= 2) =>
        /\ Len(a_requests) = NumChunks(a_dates) * Len(a_users)
        /\ \A c \in 1..NumChunks(a_dates) : \A u \in 1..Len(a_users) :
            LET r == a_requests[(c - 1) * Len(a_users) + u]
            IN r.dates = Chunk(a_dates, c) /\ r.user_ids = <<a_users[u]>>
    /\ (a_pc = "returned" /\ Len(a_users) < 2) =>
        /\ Len(a_requests) = NumChunks(a_dates)
        /\ \A c \in 1..NumChunks(a_dates) :
            /\ a_requests[c].dates = Chunk(a_dates, c)
            /\ a_requests[c].user_ids = a_users

\* 41 dates and two users: six requests, of 20, 20 and 1 dates for each user,
\* all answered.
C20_Witness ==
    /\ a_pc = "returned"
    /\ Len(a_dates) = 41
    /\ Len(a_users) = 2
    /\ Len(a_requests) = 6
    /\ Len(a_requests[5].dates) = 1
    /\ Len(a_result) = 82

AllAnswered == \A k \in 1..Len(a_requests) : a_requests[k].ok
HasFailure == \E k \in 1..Len(a_requests) : ~a_requests[k].ok
NumPairs ==
    NumChunks(a_dates) * (IF Len(a_users) >= 2 THEN Len(a_users) ELSE 1)

\* C21 as stated: whatever the number of dates and of user ids, the call
\* never raises on a failed request; it makes the requests of all pairs and
\* returns the results of those that succeeded.
C21_PairFailureNeverRaises ==
    /\ a_pc # "raised"
    /\ a_pc = "returned" =>
        /\ Len(a_requests) = NumPairs
        /\ a_result = ResponsesUpTo(Len(a_requests))

\* C21 amended: with more than 20 dates or with two or more user ids a
\* failed request is skipped, the requests of all remaining pairs are made
\* and the results of the pairs that succeeded returned; with at most 20
\* dates and at most one user id the failure of the one request leaves the
\* call as an exception.
C21_PairFailureSkippedWhenBatched ==
    /\ a_pc = "raised" <=>
        /\ Len(a_dates) <= 20 /\ Len(a_users) < 2
        /\ Len(a_requests) = 1 /\ ~a_requests[1].ok
    /\ (Len(a_dates) > 20 \/ Len(a_users) >= 2) =>
        /\ a_pc \in {"running", "returned"}
        /\ a_pc = "running" <=> Len(a_requests) < NumPairs
        /\ a_pc = "returned" =>
            /\ Len(a_requests) = NumPairs
            /\ a_result = ResponsesUpTo(Len(a_requests))

\* 21 dates, two users: the first of the four requests failed, the other
\* three were made and their results returned.
C21_Witness ==
    /\ a_pc = "returned"
    /\ Len(a_dates) = 21 /\ Len(a_users) = 2
    /\ Len(a_requests) = 4
    /\ ~a_requests[1].ok
    /\ a_requests[2].ok /\ a_requests[3].ok /\ a_requests[4].ok
    /\ Len(a_result) = 22

\* The results of the calls on the chunks 1..c of the dates, one after the
\* other.
RECURSIVE ChunkCallsUpTo(_)
ChunkCallsUpTo(c) ==
    IF c = 0 THEN <<>>
    ELSE ChunkCallsUpTo(c - 1)
            \o BatchedAllOk(Chunk(a_dates, c), a_users, Len(a_users))

\* C22: when every request is answered, the call on more than 20 dates
\* returns what the calls on its consecutive chunks of at most 20 dates
\* return, concatenated; a call on at most 20 dates returns what its one
\* batch returns.
C22_DateBatchingIdempotent ==
    (a_pc = "returned" /\ AllAnswered) =>
        a_result = ChunkCallsUpTo(NumChunks(a_dates))

\* 41 dates in three batches of 20, 20 and 1 for three users.
C22_Witness ==
    /\ a_pc = "returned" /\ AllAnswered
    /\ Len(a_dates) = 41 /\ Len(a_users) = 3
    /\ Len(a_result) = 123
    /\ a_result[61].date = 21

\* ------------------------------------------------------------------------
\* Properties of the id batching
\* ------------------------------------------------------------------------
RECURSIVE Flattened(_, _)
Flattened(seqs, k) == IF k = 0 THEN <<>> ELSE Flattened(seqs, k - 1) \o seqs[k]

CeilDiv(n, b) == (n + b - 1) \div b

\* C23: a call of get_user_settings or get_applications on n ids with batch
\* size b that returns has made ceil(n/b) requests, each of at most b ids, the
\* requests being the consecutive slices of the input, so that every input id
\* went out in exactly one request; get_user_settings returns one entry per
\* requested id.
C23_IdBatching ==
    /\ \A k \in 1..Len(i_requests) :
        /\ Len(i_requests[k]) \in 1..i_call.batch_size
        /\ i_requests[k] =
            SubSeq(i_call.ids, (k - 1) * i_call.batch_size + 1,
                   (k - 1) * i_call.batch_size + Len(i_requests[k]))
    /\ i_pc = "returned" =>
        /\ Len(i_requests) = CeilDiv(Len(i_call.ids), i_call.batch_size)
        /\ Flattened(i_requests, Len(i_requests)) = i_call.ids
        /\ i_call.fn = "get_user_settings" =>
            /\ { e.id : e \in i_result } = { i_call.ids[k] : k \in 1..Len(i_call.ids) }
            /\ \A e, f \in i_result : e.id = f.id => e = f

\* Four ids in batches of three: two requests, of three ids and of one.
C23_Witness ==
    /\ i_pc = "returned"
    /\ i_call.fn = "get_user_settings"
    /\ i_call.ids = <<3, 1, 2, 1>>
    /\ i_call.batch_size = 3
    /\ i_requests = << <<3, 1, 2>>, <<1>> >>
    /\ Cardinality(i_result) = 3

\* ------------------------------------------------------------------------
\* Properties of the applications cache
\* ------------------------------------------------------------------------
\* The ids the cache file holds.
PersistedIds(file) == CachedIds(file.apps)

AskedIds == { c_last.asked[k] : k \in 1..Len(c_last.asked) }
RequestedIds == { c_last.ids[k] : k \in 1..Len(c_last.ids) }

\* The API was asked for exactly the requested ids the file did not hold.
AskedOnlyAbsent ==
    /\ AskedIds = RequestedIds \ PersistedIds(c_last.before)
    /\ RequestedIds \subseteq PersistedIds(c_last.before) => c_last.asked = <<>>

\* No id the file held before the call has left it.
PersistedKept == PersistedIds(c_last.before) \subseteq PersistedIds(c_file)

\* The call returned the requested ids that the merged cache holds.
ReturnedFromMerged ==
    c_last.pc = "returned" =>
        /\ { e.id : e \in c_last.result } \subseteq RequestedIds
        /\ \A e \in c_last.before.apps :
            (e.id \in RequestedIds /\ c_last.read_ok) => e \in c_last.result
        /\ c_last.read_ok /\ c_last.save \in {"saved", "none"} =>
            c_last.result = { e \in c_file.apps : e.id \in RequestedIds }

Staging(p) == l_pc[p] \in {"merge", "cleanup"}

\* C25: two executions of upload_to_bigquery for the same table that are both
\* between naming their temporary table and deleting it use different names.
C25_StagingNamesDistinct ==
    \A p, q \in Loaders :
        (p # q /\ Staging(p) /\ Staging(q)) => l_temp[p] # l_temp[q]

\* Both loads are at their MERGE with different files staged, and the one
\* temporary table there is holds the file of the second.
C25_Witness ==
    /\ l_pc[1] = "merge" /\ l_pc[2] = "merge"
    /\ l_batch[1] # l_batch[2]
    /\ l_temp[1] = l_temp[2]
    /\ temps = { [name |-> l_temp[1], rows |-> StagedRows(l_batch[2])] }

\* ------------------------------------------------------------------------
\* Properties of the last-modified filter
\* ------------------------------------------------------------------------
\* The hour a last_modify string names.
ParseHour(str) == (10 * str[1] + str[2]) * 24 + 10 * str[3] + str[4]

ModifiedSince(entry, t) ==
    /\ "last_modify" \in DOMAIN entry
    /\ entry.last_modify # <<>>
    /\ ParseHour(entry.last_modify) >= t

\* C26: a call for a day other than yesterday with a window of H hours
\* returns, in their order, exactly the fetched records whose last_modify is
\* at or after now - H; a record with no or an empty last_modify is dropped.
C26_ModifiedSinceFilter ==
    (/\ m_call.at # 0
     /\ m_call.from_date # get_yesterday(m_call.at)
     /\ m_call.modified_since_hours # 0) =>
        LET Recent(entry) ==
                ModifiedSince(entry, m_call.at - m_call.modified_since_hours)
        IN m_out = SelectSeq(m_call.entries, Recent)

\* At 23:00 of day 10 with a window of one hour: the record modified on day 9
\* and the record without last_modify are dropped, the record modified at
\* the cutoff is kept.
C26_Witness ==
    /\ m_call.at = 263
    /\ m_call.modified_since_hours = 1
    /\ m_call.from_date = 8
    /\ m_call.entries = <<[id |-> 1, last_modify |-> ApiTimestamp(230)],
                          [id |-> 1, last_modify |-> ApiTimestamp(262)]>>
    /\ m_out = <<[id |-> 1, last_modify |-> ApiTimestamp(262)]>>

\* ------------------------------------------------------------------------
\* Properties of the application-name fallback
\* ------------------------------------------------------------------------
AllBlank(str) == \A k \in 1..Len(str) : IsSpace(SubSeq(str, k, k))

\* t is str trimmed: str is blanks, t, blanks, and t neither begins nor ends
\* with a blank.
IsTrimOf(t, str) ==
    /\ \E i \in 0..Len(str) : \E j \in i..Len(str) :
        /\ t = SubSeq(str, i + 1, j)
        /\ AllBlank(SubSeq(str, 1, i))
        /\ AllBlank(SubSeq(str, j + 1, Len(str)))
    /\ t # "" => /\ ~IsSpace(SubSeq(t, 1, 1))
                 /\ ~IsSpace(SubSeq(t, Len(t), Len(t)))

\* The value of a field of the record given; a missing or null field is empty.
FieldOrEmpty(field) ==
    IF field \in DOMAIN n_in /\ n_in[field] # None THEN n_in[field] ELSE ""

BlankField(field) == AllBlank(FieldOrEmpty(field))

\* C27: the name returned is the trimmed full_name unless that is empty, else
\* the trimmed aditional_info unless that is empty, else the trimmed
\* app_name, which is the empty string when app_name is blank too; a missing
\* or null field counts as empty.
C27_NameFallbackChain ==
    n_out # "-" =>
        LET chosen == IF ~BlankField("full_name") THEN "full_name"
                      ELSE IF ~BlankField("aditional_info") THEN "aditional_info"
                      ELSE "app_name"
        IN /\ IsTrimOf(n_out, FieldOrEmpty(chosen))
           /\ (\A field \in NameFields : BlankField(field)) => n_out = ""

\* full_name is null and aditional_info blank: app_name is returned trimmed.
C27_Witness ==
    /\ n_in = [full_name |-> None, aditional_info |-> " ", app_name |-> " b c "]
    /\ n_out = "b c"

\* ------------------------------------------------------------------------
\* Properties of the file stage 2 loads
\* ------------------------------------------------------------------------
Stage2Loaded ==
    /\ Len(o_log) = 2
    /\ o_log[2].script = "destination_googlebigquery.py"
    /\ o_log[2].loaded # 0

\* C28 (as stated): the file stage 2 loads was uploaded by stage 1 of the
\* same orchestrator run: it is none of the objects the bucket held when the
\* run started.
C28_Stage2LoadsThisRunsFile == Stage2Loaded => o_log[2].loaded > o_gcs0

\* C28 (amended): stage 2 loads the newest object of the bucket; that is the
\* file of this run when stage 1 uploaded one, and an object an earlier run
\* left when stage 1 exited 0 without uploading.
C28_Stage2LoadsNewestFile ==
    Stage2Loaded =>
        /\ o_log[2].loaded = gcs
        /\ o_log[1].wrote = 1 => o_log[2].loaded = o_gcs0 + 1
        /\ o_log[1].wrote = 0 => o_log[2].loaded = o_gcs0

\* A second run whose stage 1 uploaded a file: stage 2 loaded that file and
\* not the one the first run left.
C28_Witness ==
    /\ o_runs = 2
    /\ o_gcs0 = 1
    /\ Stage2Loaded
    /\ o_log[1].wrote = 1
    /\ o_log[2].loaded = 2
    /\ o_exit = 0

\* ------------------------------------------------------------------------
\* Properties of the destination rows a load leaves alone
\* ------------------------------------------------------------------------
RowIds(rows) == { rows[j]["id"] : j \in 1..Len(rows) }
BatchIds(p) == { l_batch[p][k].id : k \in 1..Len(l_batch[p]) }

\* C29: a load that returns, having found the destination with a schema that
\* needs no update, has left every destination row whose id is not in the
\* batch as it was and has deleted none: the ids in the destination are those
\* it held before and those of the batch.
C29_MergeLeavesOtherRows ==
    \A p \in Loaders :
        (/\ l_pc[p] = "returned"
         /\ l_start[p].exists
         /\ ~SchemaNeedsUpdate(l_start[p].schema)) =>
            /\ Len(dest.rows) >= Len(l_start[p].rows)
            /\ \A j \in 1..Len(l_start[p].rows) :
                l_start[p].rows[j]["id"] \notin BatchIds(p) =>
                    dest.rows[j] = l_start[p].rows[j]
            /\ RowIds(dest.rows) = RowIds(l_start[p].rows) \cup BatchIds(p)

\* A batch holding only id 2 was loaded into a table holding a row of id 1:
\* that row is as it was and a row of id 2 has been added.
C29_Witness ==
    /\ l_pc[1] = "returned"
    /\ l_start[1].exists
    /\ l_start[1].schema = ExpectedSchema
    /\ RowIds(l_start[1].rows) = {1}
    /\ BatchIds(1) = {2}
    /\ Len(dest.rows) = 2
    /\ dest.rows[1] = l_start[1].rows[1]

\* C30 (as stated): whenever an execution raises, the destination holds the
\* rows it held before the call and has not been dropped.
C30_RaiseLeavesDestination ==
    \A p \in Loaders :
        l_pc[p] = "raised" =>
            /\ dest.rows = l_start[p].rows
            /\ l_start[p].exists => dest.exists

Dropped(p) == "delete_table" \in CallsOf(p) /\ l_err[p] # "drop"

\* C30 (amended): an execution that raises without having dropped the table
\* (the drop itself failed, or the schema needed no update, or there was no
\* table) leaves the destination rows as they were before the call, a failed
\* MERGE having merged nothing; an execution that raises after it dropped the
\* table for a schema mismatch leaves the destination absent or empty.
C30_RaiseLeavesRowsUnlessDropped ==
    \A p \in Loaders :
        l_pc[p] = "raised" =>
            IF Dropped(p)
            THEN dest.rows = <<>> /\ l_err[p] \in {"create", "load", "merge"}
            ELSE /\ dest.rows = l_start[p].rows
                 /\ l_start[p].exists => dest = l_start[p]

\* A MERGE failed on a table holding a row: the execution raised and the row
\* is as it was.
C30_Witness ==
    /\ l_pc[1] = "raised"
    /\ l_err[1] = "merge"
    /\ "delete_table" \notin CallsOf(1)
    /\ l_start[1].rows # <<>>
    /\ dest = l_start[1]

====
